---- MODULE Spec2Model ----
(***************************************************************************)
(* Model of the spatial invoice chunker                                    *)
(* (pdf_pipeline_modular/chunking/spatial_invoice_chunker.py) and of the   *)
(* table / position-name functions of the normalizer                       *)
(* (pdf_pipeline_modular/normalizer/normalizer.py).                        *)
(*                                                                         *)
(* Python values are modelled directly: a str is a TLA+ string, a list a   *)
(* sequence, a dict a record whose DOMAIN is its key set (a missing key is *)
(* a missing field), None is the value None.  Confidences, accuracies and  *)
(* coordinates are integers; a confidence c stands for c/100.              *)
(*                                                                         *)
(* TLA+ strings are ASCII, so the non-ASCII characters of the sources are  *)
(* written with the stand-ins below.                                       *)
(***************************************************************************)
EXTENDS Integers, Sequences, FiniteSets, TLC

VARIABLES
    pc,                 \* position of the running call
    err,                \* exception raised by the running call, or "none"
    extraction_result,  \* input of chunk_invoice_extraction
    pages,              \* pages argument (chunker or normalizer)
    tables,             \* tables argument of the chunker
    page_num,           \* enumerate index of the page loop (pages done)
    table_num,          \* tables done by the table loop
    groups,             \* adaptive_groups of the page processed last
    chunks,             \* the chunk list being built / the merge input
    i,                  \* loop index of _merge_related_chunks
    merged_chunks,      \* result list of _merge_related_chunks
    table_rows,         \* table_rows argument of the normalizer functions
    position_names,     \* result of extract_position_names
    table_structure,    \* result of reconstruct_table_structure
    row_groups,         \* groups formed by the grouping function called last
    regrouped,          \* groups formed from the flattened row_groups
    summary,            \* result of get_chunk_summary
    cell_details,       \* details_text argument of _parse_line_item_details
    cell_parsed         \* result of _parse_line_item_details

vars == <<pc, err, extraction_result, pages, tables, page_num, table_num, groups, chunks,
          i, merged_chunks, table_rows, position_names, table_structure,
          row_groups, regrouped, summary, cell_details, cell_parsed>>

None == <<"None">>

(***************************************************************************)
(* Characters.                                                             *)
(***************************************************************************)
\* U+20AC, the euro sign (normalizer.py, and the texts of real invoices)
EURO == "~"
\* U+201A U+00C7 U+00A8: the three characters spatial_invoice_chunker.py
\* holds where a euro sign was meant (lines 111, 257)
SBQUO == "{"
CCEDIL == "^"
DIAER == "@"
\* U+00E7, the lowercase of U+00C7
ccedil == "&"
MOJIBAKE_EURO == SBQUO \o CCEDIL \o DIAER

UPPER == "ABCDEFGHIJKLMNOPQRSTUVWXYZ" \o CCEDIL
LOWER == "abcdefghijklmnopqrstuvwxyz" \o ccedil

Chr(s, k) == SubSeq(s, k, k)
CharsOf(s) == {Chr(s, k) : k \in 1..Len(s)}

DIGITS == CharsOf("0123456789")
\* \s of the re module, and str.isspace
WHITESPACE == {" ", "\t", "\n", "\r"}
AZ == CharsOf("abcdefghijklmnopqrstuvwxyz")

\* dict.get(key, default)
Get(d, key, default) == IF key \in DOMAIN d THEN d[key] ELSE default

Min(S) == CHOOSE m \in S : \A n \in S : m <= n
Max(S) == CHOOSE m \in S : \A n \in S : m >= n
Abs(n) == IF n < 0 THEN -n ELSE n

(***************************************************************************)
(* str methods.                                                            *)
(***************************************************************************)
lower_char(c) ==
    IF \E k \in 1..Len(UPPER) : Chr(UPPER, k) = c
    THEN Chr(LOWER, CHOOSE k \in 1..Len(UPPER) : Chr(UPPER, k) = c)
    ELSE c

RECURSIVE lower(_)
lower(s) == IF s = "" THEN "" ELSE lower_char(Head(s)) \o lower(Tail(s))

\* sub in s
Contains(s, sub) ==
    \E k \in 1..(Len(s) - Len(sub) + 1) : SubSeq(s, k, k + Len(sub) - 1) = sub

RECURSIVE lstrip(_)
lstrip(s) == IF s # "" /\ Head(s) \in WHITESPACE THEN lstrip(Tail(s)) ELSE s

RECURSIVE rstrip(_)
rstrip(s) ==
    IF s # "" /\ Chr(s, Len(s)) \in WHITESPACE
    THEN rstrip(SubSeq(s, 1, Len(s) - 1))
    ELSE s

strip(s) == rstrip(lstrip(s))

\* separator.join(parts)
RECURSIVE join(_, _)
join(sep, parts) ==
    IF parts = << >> THEN ""
    ELSE IF Len(parts) = 1 THEN parts[1]
    ELSE parts[1] \o sep \o join(sep, Tail(parts))

(***************************************************************************)
(* Regular expressions of the re module.  A pattern is a tree; Ends(r,s,k) *)
(* is the set of positions at which a match of r that starts at position   *)
(* k of s can end, so that search, match and the backtracking of re agree  *)
(* with Python on whether a match exists.                                  *)
(***************************************************************************)
Lit(str) == <<"lit", str>>
Cls(S) == <<"cls", S>>
Cat(rs) == <<"cat", rs>>
Alt(rs) == <<"alt", rs>>
Star(r) == <<"star", r>>
Plus(r) == <<"plus", r>>
Opt(r) == <<"opt", r>>
Rep(r, n) == <<"rep", r, n>>
Range(r, m, n) == <<"range", r, m, n>>

RECURSIVE Ends(_, _, _)
RECURSIVE EndsAll(_, _, _)
RECURSIVE EndsCat(_, _, _)
RECURSIVE EndsStar(_, _, _)
RECURSIVE EndsRange(_, _, _, _, _)

\* the ends of r started at any position of the set K
EndsAll(r, s, K) == UNION {Ends(r, s, k) : k \in K}

EndsCat(rs, s, K) ==
    IF rs = << >> \/ K = {} THEN K
    ELSE EndsCat(Tail(rs), s, EndsAll(Head(rs), s, K))

EndsStar(r, s, K) ==
    LET more == K \cup EndsAll(r, s, K)
    IN  IF more = K THEN K ELSE EndsStar(r, s, more)

\* between m and n further repetitions of r from the positions K
EndsRange(r, s, K, m, n) ==
    IF n = 0 \/ K = {} THEN K
    ELSE LET next == EndsAll(r, s, K)
         IN  IF m > 0 THEN EndsRange(r, s, next, m - 1, n - 1)
             ELSE K \cup EndsRange(r, s, next, 0, n - 1)

Ends(r, s, k) ==
    CASE r[1] = "lit" ->
            IF k + Len(r[2]) - 1 <= Len(s) /\ SubSeq(s, k, k + Len(r[2]) - 1) = r[2]
            THEN {k + Len(r[2])} ELSE {}
      [] r[1] = "cls" -> IF k <= Len(s) /\ Chr(s, k) \in r[2] THEN {k + 1} ELSE {}
      [] r[1] = "cat" -> EndsCat(r[2], s, {k})
      [] r[1] = "alt" -> UNION {Ends(r[2][n], s, k) : n \in 1..Len(r[2])}
      [] r[1] = "star" -> EndsStar(r[2], s, {k})
      [] r[1] = "plus" -> EndsStar(r[2], s, Ends(r[2], s, k))
      [] r[1] = "opt" -> {k} \cup Ends(r[2], s, k)
      [] r[1] = "rep" -> EndsRange(r[2], s, {k}, r[3], r[3])
      [] r[1] = "range" -> EndsRange(r[2], s, {k}, r[3], r[4])

\* re.search(r, s) is not None
re_search(r, s) == \E k \in 1..(Len(s) + 1) : Ends(r, s, k) # {}

\* re.search(r, s, re.IGNORECASE) is not None, for a pattern r that contains no
\* uppercase letter (every pattern of the chunker that is used with the flag)
re_search_ignorecase(r, s) == re_search(r, lower(s))

\* re.match('^' + r + '$', s) is not None: the whole of s, or all of s but
\* one final newline
re_match_whole(r, s) ==
    \/ Len(s) + 1 \in Ends(r, s, 1)
    \/ Len(s) > 0 /\ Chr(s, Len(s)) = "\n" /\ Len(s) \in Ends(r, s, 1)

\* the classes \d and \s, and the shorthands used below
D == Cls(DIGITS)
S == Cls(WHITESPACE)

(***************************************************************************)
(* SpatialInvoiceChunker.__init__                                          *)
(***************************************************************************)
chunk_types == <<"header", "addresses", "line_items", "totals", "footer">>

AZS == Cls(AZ \cup WHITESPACE)

\* self.content_patterns, in the insertion order of the dict
content_patterns == <<
    <<"header", <<
        Cat(<<Lit("invoice"), Star(S), Opt(Lit("#")), Star(S), Plus(D)>>),
        Cat(<<Lit("bill"), Star(S), Opt(Lit("#")), Star(S), Plus(D)>>),
        Cat(<<Lit("date"), Star(S), Opt(Lit(":")), Star(S), Range(D, 1, 2),
              Cls({"/", "-"}), Range(D, 1, 2), Cls({"/", "-"}), Range(D, 2, 4)>>),
        Cat(<<Lit("invoice"), Star(S), Lit("date")>>),
        Cat(<<Lit("due"), Star(S), Lit("date")>>) >> >>,
    <<"addresses", <<
        Cat(<<Lit("bill"), Star(S), Lit("to"), Star(S), Opt(Lit(":"))>>),
        Cat(<<Lit("ship"), Star(S), Lit("to"), Star(S), Opt(Lit(":"))>>),
        Cat(<<Lit("sold"), Star(S), Lit("to"), Star(S), Opt(Lit(":"))>>),
        Cat(<<Lit("customer"), Star(S), Opt(Lit(":"))>>),
        Cat(<<Plus(D), Plus(S), Plus(AZS), Plus(S),
              Alt(<<Lit("st"), Lit("ave"), Lit("rd"), Lit("blvd"), Lit("drive"), Lit("lane")>>)>>),
        Cat(<<Plus(AZS), Lit(","), Star(S), Rep(Cls(AZ), 2), Star(S), Rep(D, 5)>>) >> >>,
    <<"line_items", <<
        Lit("description"),
        Alt(<<Lit("quantity"), Lit("qty")>>),
        Alt(<<Lit("price"), Lit("rate"), Lit("amount")>>),
        Cat(<<Lit("item"), Star(S), Opt(Lit("#"))>>),
        Lit("product"),
        Lit("service") >> >>,
    <<"totals", <<
        Alt(<<Lit("subtotal"), Cat(<<Lit("sub"), Star(S), Lit("total")>>)>>),
        Alt(<<Lit("tax"), Lit("vat")>>),
        Alt(<<Lit("total"), Cat(<<Lit("grand"), Star(S), Lit("total")>>)>>),
        Cat(<<Lit("amount"), Star(S), Lit("due")>>),
        Lit("balance"),
        Lit("discount") >> >>
>>

(***************************************************************************)
(* SpatialInvoiceChunker._classify_element_adaptively                      *)
(***************************************************************************)
\* r'\$[\d,]+\.?\d*'
MONEY_DOLLAR == Cat(<<Lit("$"), Plus(Cls(DIGITS \cup {","})), Opt(Lit(".")), Star(D)>>)
\* r'\d+\.\d{2}|\d+\s*x\s*\d+'
QUANTITY_PRICE ==
    Alt(<<Cat(<<Plus(D), Lit("."), Rep(D, 2)>>),
          Cat(<<Plus(D), Star(S), Lit("x"), Star(S), Plus(D)>>)>>)
\* r'\d+\s+[a-z\s]+(st|ave|rd|blvd)'
STREET == Cat(<<Plus(D), Plus(S), Plus(AZS), Alt(<<Lit("st"), Lit("ave"), Lit("rd"), Lit("blvd")>>)>>)

\* the chunk types, in order, that have a pattern matching text
RECURSIVE matching_types(_, _)
matching_types(patterns, text) ==
    IF patterns = << >> THEN << >>
    ELSE LET entry == Head(patterns)
             hit == \E n \in 1..Len(entry[2]) : re_search_ignorecase(entry[2][n], text)
         IN  (IF hit THEN <<entry[1]>> ELSE << >>) \o matching_types(Tail(patterns), text)

\* the rules of lines 148-166 with the address rule (line 162) tried before the
\* line-item rule (line 158)
spatial_fallback_addresses_first(text, y_position, font_size) ==
    IF y_position > 700 /\ font_size > 12 THEN "header"
    ELSE IF y_position < 200 /\ re_search(MONEY_DOLLAR, text) THEN "totals"
    ELSE IF y_position > 500 /\ re_search_ignorecase(STREET, text) THEN "addresses"
    ELSE IF 200 < y_position /\ y_position < 700 /\ re_search(QUANTITY_PRICE, text)
         THEN "line_items"
    ELSE IF y_position > 400 THEN "header" ELSE "footer"

\* the spatial / visual rules of lines 148-166
spatial_fallback(text, y_position, font_size) ==
    IF y_position > 700 /\ font_size > 12 THEN "header"
    ELSE IF y_position < 200 /\ re_search(MONEY_DOLLAR, text) THEN "totals"
    ELSE IF 200 < y_position /\ y_position < 700 /\ re_search(QUANTITY_PRICE, text)
         THEN "line_items"
    ELSE IF y_position > 500 /\ re_search_ignorecase(STREET, text) THEN "addresses"
    ELSE IF y_position > 400 THEN "header" ELSE "footer"

\* _classify_element_adaptively returning the last matching category
classify_element_adaptively_last_match(element, text, bbox, font_info) ==
    LET y_position == IF bbox # << >> THEN bbox[2] ELSE 0
        font_size == Get(font_info, "size", 10)
        matched == matching_types(content_patterns, text)
    IN  IF matched # << >> THEN matched[Len(matched)]
        ELSE spatial_fallback(text, y_position, font_size)

\* SpatialInvoiceChunker._classify_element_adaptively
classify_element_adaptively(element, text, bbox, font_info) ==
    LET y_position == IF bbox # << >> THEN bbox[2] ELSE 0
        font_size == Get(font_info, "size", 10)
        matched == matching_types(content_patterns, text)
    IN  IF matched # << >> THEN Head(matched)
        ELSE spatial_fallback(text, y_position, font_size)

(***************************************************************************)
(* SpatialInvoiceChunker._adaptive_spatial_grouping                        *)
(***************************************************************************)
ZERO_BBOX == <<0, 0, 0, 0>>
EMPTY_DICT == << >>

bbox_top(e) == Get(e, "bbox", ZERO_BBOX)[2]

\* sorted(elements, key=lambda e: e.get('bbox', [0,0,0,0])[1], reverse=True):
\* stable, elements with equal keys keep their order
RECURSIVE insert_desc(_, _)
insert_desc(sorted, e) ==
    IF sorted = << >> THEN <<e>>
    ELSE IF bbox_top(Head(sorted)) >= bbox_top(e)
         THEN <<Head(sorted)>> \o insert_desc(Tail(sorted), e)
         ELSE <<e>> \o sorted

RECURSIVE sorted_desc(_)
sorted_desc(seq) ==
    IF seq = << >> THEN << >>
    ELSE insert_desc(sorted_desc(SubSeq(seq, 1, Len(seq) - 1)), seq[Len(seq)])

TOTALS_KEYWORDS == {"gesamt", "total", "summe", "betrag", "steuer", "mwst", "ust"}
\* r'\d+[,.]\d+\s*' followed by the three characters of line 111
MONEY_AMOUNT == Cat(<<Plus(D), Cls({",", "."}), Plus(D), Star(S), Lit(MOJIBAKE_EURO)>>)

\* the pre-filter with the right-margin test of line 114 applied to the keyword
\* branch as well
is_totals_element_right_of_margin(element) ==
    LET text == lower(Get(element, "text", ""))
    IN  /\ \/ \E pattern \in TOTALS_KEYWORDS : Contains(text, pattern)
           \/ re_search(MONEY_AMOUNT, text) /\ Contains(text, MOJIBAKE_EURO)
        /\ Get(element, "bbox", ZERO_BBOX)[1] > 400

\* lines 104-119: is the element put into totals_elements
is_totals_element(element) ==
    LET text == lower(Get(element, "text", ""))
    IN  IF \E pattern \in TOTALS_KEYWORDS : Contains(text, pattern) THEN TRUE
        ELSE IF re_search(MONEY_AMOUNT, text) /\ Contains(text, MOJIBAKE_EURO)
             THEN Get(element, "bbox", ZERO_BBOX)[1] > 400
             ELSE FALSE

\* line 132, with the arguments lines 126-128 compute
classify_other(element) ==
    classify_element_adaptively(element, lower(Get(element, "text", "")),
                                Get(element, "bbox", ZERO_BBOX),
                                Get(element, "font_info", EMPTY_DICT))

\* the elements of seq whose route is r, in order
RECURSIVE routed(_, _, _)
routed(seq, route, r) ==
    IF seq = << >> THEN << >>
    ELSE (IF Head(route) = r THEN <<Head(seq)>> ELSE << >>)
         \o routed(Tail(seq), Tail(route), r)

adaptive_spatial_grouping(elements) ==
    LET sorted_elements == sorted_desc(elements)
        \* lines 104-119 and 125-133: the list each sorted element is appended to
        route == [n \in 1..Len(sorted_elements) |->
                    IF is_totals_element(sorted_elements[n]) THEN "totals_elements"
                    ELSE classify_other(sorted_elements[n])]
        totals_elements == routed(sorted_elements, route, "totals_elements")
    IN  \* line 122 makes totals_elements the totals group, so that the elements
        \* classified totals afterwards are appended to it
        [t \in {chunk_types[n] : n \in 1..Len(chunk_types)} |->
            IF t = "totals" THEN totals_elements \o routed(sorted_elements, route, t)
            ELSE routed(sorted_elements, route, t)]

(***************************************************************************)
(* InvoiceChunk, and the chunk builders                                    *)
(***************************************************************************)
InvoiceChunk(content, chunk_type, elements, bbox, page_number, confidence) ==
    [content |-> content, chunk_type |-> chunk_type, elements |-> elements,
     bbox |-> bbox, page_number |-> page_number, confidence |-> confidence]

\* [f(seq[1]), ..., f(seq[n])]
Map(seq, f(_)) == [n \in 1..Len(seq) |-> f(seq[n])]

\* confidence=0.8 of line 197
DEFAULT_CONFIDENCE == 80

\* SpatialInvoiceChunker._create_chunk_from_elements
create_chunk_from_elements(elements, chunk_type, page_number) ==
    LET combined_text == join("\n", Map(elements, LAMBDA elem : Get(elem, "text", "")))
        \* elem.get('bbox') is falsy for a missing, a null and an empty bbox
        with_bbox == SelectSeq(elements,
                        LAMBDA elem : Get(elem, "bbox", None) \notin {None, << >>})
        bboxes == {with_bbox[n].bbox : n \in 1..Len(with_bbox)}
        chunk_bbox == IF bboxes # {}
                      THEN <<Min({b[1] : b \in bboxes}), Min({b[2] : b \in bboxes}),
                             Max({b[3] : b \in bboxes}), Max({b[4] : b \in bboxes})>>
                      ELSE ZERO_BBOX
    IN  InvoiceChunk(combined_text, chunk_type, elements, chunk_bbox, page_number,
                     DEFAULT_CONFIDENCE)

\* s.split('\n')
RECURSIVE split_lines(_)
split_lines(s) ==
    IF \E k \in 1..Len(s) : Chr(s, k) = "\n"
    THEN LET k == Min({n \in 1..Len(s) : Chr(s, n) = "\n"})
         IN  <<SubSeq(s, 1, k - 1)>> \o split_lines(SubSeq(s, k + 1, Len(s)))
    ELSE <<s>>

\* U+221A U+00BA: the two characters line 253 holds inside the unit "St..ck"
SQRT == "!"
ORDM == "?"

\* r'^\d+[,.]?\d*$'
QUANTITY == Cat(<<Plus(D), Opt(Cls({",", "."})), Star(D)>>)
\* r'^(Std\.|Stk\.|St\.|St..ck|Hours?|pcs?)\.?$' with re.IGNORECASE
UNIT ==
    Cat(<<Alt(<<Lit("std."), Lit("stk."), Lit("st."), Lit("st" \o SQRT \o ORDM \o "ck"),
                Cat(<<Lit("hour"), Opt(Lit("s"))>>), Cat(<<Lit("pc"), Opt(Lit("s"))>>)>>),
          Opt(Lit("."))>>)
\* r'\d+[,.]?\d*\s*' followed by the three characters of line 257
PRICE == Cat(<<Plus(D), Opt(Cls({",", "."})), Star(D), Star(S), Lit(MOJIBAKE_EURO)>>)
\* r'\d+%'
TAX_RATE == Cat(<<Plus(D), Lit("%")>>)

\* one iteration of the loop of lines 247-265: parsed after the line
parse_line(parsed, line) ==
    LET set(key) == [k \in DOMAIN parsed \cup {key} |-> IF k = key THEN line ELSE parsed[k]]
    IN  IF re_match_whole(QUANTITY, line) THEN set("quantity")
        ELSE IF re_match_whole(UNIT, lower(line)) THEN set("unit")
        ELSE IF re_search(PRICE, line)
             THEN IF "unit_price" \notin DOMAIN parsed THEN set("unit_price")
                  ELSE set("line_total")
        ELSE IF re_search(TAX_RATE, line) THEN set("tax_rate")
        ELSE parsed

RECURSIVE parse_lines(_, _)
parse_lines(parsed, lines) ==
    IF lines = << >> THEN parsed
    ELSE parse_lines(parse_line(parsed, Head(lines)), Tail(lines))

\* SpatialInvoiceChunker._parse_line_item_details
parse_line_item_details(details_text) ==
    LET stripped == Map(split_lines(details_text), strip)
        lines == SelectSeq(stripped, LAMBDA line : line # "")
    IN  parse_lines(EMPTY_DICT, lines)

\* str(n) of a non-negative int
RECURSIVE str_int(_)
str_int(n) ==
    IF n < 10 THEN Chr("0123456789", n + 1)
    ELSE str_int(n \div 10) \o Chr("0123456789", (n % 10) + 1)

\* s * n
RECURSIVE repeat(_, _)
repeat(s, n) == IF n <= 0 THEN "" ELSE s \o repeat(s, n - 1)

\* str(cell) if cell else "" (lines 215-216), for the str cells of a Camelot table
cell_text(cell) == IF cell = "" THEN "" ELSE cell

\* the block lines 221-228 add for row number n
line_item_text(row, n) ==
    LET description == cell_text(row[1])
        details == cell_text(row[2])
        parsed_details == parse_line_item_details(details)
    IN  "LINE ITEM " \o str_int(n) \o ":\n"
        \o "  Description: " \o description \o "\n"
        \o "  Quantity: " \o Get(parsed_details, "quantity", "N/A") \o "\n"
        \o "  Unit: " \o Get(parsed_details, "unit", "N/A") \o "\n"
        \o "  Unit Price: " \o Get(parsed_details, "unit_price", "N/A") \o "\n"
        \o "  Tax Rate: " \o Get(parsed_details, "tax_rate", "N/A") \o "\n"
        \o "  Line Total: " \o Get(parsed_details, "line_total", "N/A") \o "\n"
        \o repeat("-", 30) \o "\n"

RECURSIVE rows_text(_, _)
rows_text(rows, n) ==
    IF n > Len(rows) THEN ""
    ELSE (IF Len(rows[n]) >= 2 THEN line_item_text(rows[n], n) ELSE "")
         \o rows_text(rows, n + 1)

\* confidence=0.9 of line 237
TABLE_CONFIDENCE == 90

\* does SpatialInvoiceChunker._create_table_chunk raise: lines 234-235 index
\* table.get('bbox', [0,0,0,0]), which is None for a table whose bbox is null
create_table_chunk_raises(table) == Get(table, "bbox", ZERO_BBOX) = None

\* SpatialInvoiceChunker._create_table_chunk, when it returns
create_table_chunk(table) ==
    LET table_text ==
            IF "data" \in DOMAIN table /\ table.data # << >>
            THEN "TABLE: Invoice Line Items\n" \o repeat("=", 50) \o "\n"
                 \o rows_text(table.data, 1)
            ELSE ""
    IN  InvoiceChunk(table_text, "line_items", << >>, Get(table, "bbox", ZERO_BBOX),
                     Get(table, "page", 1), TABLE_CONFIDENCE)

\* lines 76-81 without the test of line 77: a chunk for every group
RECURSIVE group_chunks_of_empty_groups(_, _, _)
group_chunks_of_empty_groups(adaptive_groups, types, page_number) ==
    IF types = << >> THEN << >>
    ELSE <<create_chunk_from_elements(adaptive_groups[Head(types)], Head(types), page_number)>>
         \o group_chunks_of_empty_groups(adaptive_groups, Tail(types), page_number)

\* the chunks lines 76-81 append for one page, in the order of the dict
RECURSIVE group_chunks(_, _, _)
group_chunks(adaptive_groups, types, page_number) ==
    IF types = << >> THEN << >>
    ELSE (IF adaptive_groups[Head(types)] # << >>
          THEN <<create_chunk_from_elements(adaptive_groups[Head(types)], Head(types),
                                            page_number)>>
          ELSE << >>)
         \o group_chunks(adaptive_groups, Tail(types), page_number)

\* accuracy default of line 403
DEFAULT_ACCURACY == 80

\* one iteration of the loop of SpatialInvoiceChunker._process_tables
process_table(table) ==
    LET rows == SelectSeq(Get(table, "data", << >>), LAMBDA row : row # << >>)
        table_text_lines == Map(rows,
            LAMBDA row : join(" | ", row))
    IN  InvoiceChunk(join("\n", table_text_lines), "table_data", << >>,
                     Get(table, "bbox", ZERO_BBOX), Get(table, "page", 1),
                     Get(table, "accuracy", DEFAULT_ACCURACY))

(***************************************************************************)
(* Inputs of the chunker: what extract_with_pdfplumber_camelot can hand    *)
(* over.  An element is a dict with the keys it happens to carry.          *)
(***************************************************************************)
\* the fragment of the scenario: a totals keyword, no font info
E_GESAMT == [text |-> "Gesamtbetrag: 1511,30 " \o EURO, bbox |-> <<420, 50, 520, 60>>]
\* a totals keyword in a text that also matches a line_items content pattern
\* (qty) and the quantity/price pattern, mid-page, left of x = 400
E_TOTAL_QTY == [text |-> "Total Qty 2 x 3.50", bbox |-> <<50, 300, 200, 312>>,
                font_info |-> [name |-> "Helvetica", size |-> 10]]
\* a line_items content pattern; no bbox
E_DESC == [text |-> "Description", font_info |-> [name |-> "Helvetica-Bold", size |-> 11]]
\* an addresses content pattern; no font info
E_BILLTO == [text |-> "Bill To: ACME", bbox |-> <<50, 600, 180, 612>>]
\* no text; top of the page, large font
E_TITLE == [bbox |-> <<50, 750, 300, 770>>, font_info |-> [name |-> "Helvetica", size |-> 14]]
\* no text, no bbox, no font info
E_EMPTY == EMPTY_DICT

ElementUniverse == {E_GESAMT, E_TOTAL_QTY, E_DESC, E_BILLTO, E_TITLE, E_EMPTY}

\* a table as extract_tables_camelot emits it (extractor_pdfplumber.py:73-81);
\* Camelot reports accuracy as a percentage, here 99.02
T_LATTICE == [page |-> 1, accuracy |-> 9902, bbox |-> <<50, 200, 500, 400>>,
              data |-> << <<"Consulting", "10,00\nStd.\n80,00 " \o EURO \o "\n19%\n800,00 " \o EURO>>,
                          <<"Rabatt">> >>]
\* the same with no geometry: line 80 emits "bbox": None
T_NO_GEOMETRY == [page |-> 2, accuracy |-> 95, bbox |-> None,
                  data |-> << <<"Hosting", "2\npcs\n5,00 " \o MOJIBAKE_EURO \o "\n7%">> >>]
\* a table that carries none of the optional keys
T_BARE == [data |-> << >>]

TableUniverse == {T_LATTICE, T_NO_GEOMETRY, T_BARE}

\* pages, elements and tables of one document, together
MaxInput == 4

SeqsUpTo(U, n) == UNION {[1..k -> U] : k \in 0..n}

\* the page lists that, with their elements, count at most budget
RECURSIVE PageLists(_, _)
PageLists(U, budget) ==
    {<< >>} \cup
    (IF budget = 0 THEN {}
     ELSE UNION {{<<[elements |-> els]>> \o rest : rest \in PageLists(U, budget - 1 - Len(els))}
                 : els \in SeqsUpTo(U, budget - 1)})

\* the pages of ps plus their elements
RECURSIVE Size(_)
Size(ps) == IF ps = << >> THEN 0 ELSE 1 + Len(Head(ps).elements) + Size(Tail(ps))

ExtractionResult(ps, ts) ==
    [text_extraction |-> [pages |-> ps], table_extraction |-> [tables |-> ts]]

(***************************************************************************)
(* The chunker's calls.                                                    *)
(***************************************************************************)
\* the variables of the chunker's calls, of the merger and of the normalizer
\* before any call
ChunkerIdle == tables = << >> /\ page_num = 0 /\ table_num = 0 /\ groups = EMPTY_DICT
MergerIdle == i = 0 /\ merged_chunks = << >>
GrouperIdle == row_groups = << >> /\ regrouped = << >>
SummaryIdle == summary = EMPTY_DICT
ParserIdle == cell_details = "" /\ cell_parsed = EMPTY_DICT
NormalizerIdle == table_rows = << >> /\ position_names = << >> /\ table_structure = None
\* the same before a call of the normalizer, which has its table rows
NormalizerResultsIdle == position_names = << >> /\ table_structure = None

Init ==
    /\ pc = "idle" /\ err = "none"
    /\ \/ extraction_result = EMPTY_DICT
       \/ \E ps \in PageLists(ElementUniverse, MaxInput) :
             \E ts \in SeqsUpTo(TableUniverse, MaxInput - Size(ps)) :
                extraction_result = ExtractionResult(ps, ts)
    /\ pages = << >> /\ chunks = << >>
    /\ ChunkerIdle /\ MergerIdle /\ GrouperIdle /\ SummaryIdle /\ ParserIdle /\ NormalizerIdle

\* SpatialInvoiceChunker.chunk_invoice_extraction, up to the loops of
\* chunk_invoice_spatially
chunk_invoice_extraction ==
    /\ pc = "idle"
    /\ pages' = Get(Get(extraction_result, "text_extraction", EMPTY_DICT), "pages", << >>)
    /\ tables' = Get(Get(extraction_result, "table_extraction", EMPTY_DICT), "tables", << >>)
    /\ chunks' = << >>
    /\ pc' = "chunking"
    /\ UNCHANGED <<err, extraction_result, page_num, table_num, groups, i, merged_chunks,
                   table_rows, position_names, table_structure, row_groups, regrouped, summary,
                   cell_details, cell_parsed>>

\* one iteration of the page loop of chunk_invoice_spatially (lines 69-81)
ChunkPage ==
    /\ pc = "chunking"
    /\ page_num < Len(pages)
    /\ LET page == pages[page_num + 1]
           elements == Get(page, "elements", << >>)
           adaptive_groups == adaptive_spatial_grouping(elements)
       IN  /\ groups' = adaptive_groups
           /\ chunks' = chunks \o group_chunks(adaptive_groups, chunk_types, page_num + 1)
    /\ page_num' = page_num + 1
    /\ UNCHANGED <<pc, err, extraction_result, pages, tables, table_num, i, merged_chunks,
                   table_rows, position_names, table_structure, row_groups, regrouped, summary,
                   cell_details, cell_parsed>>

\* one iteration of the table loop of chunk_invoice_spatially (lines 84-86)
ChunkTable ==
    /\ pc = "chunking"
    /\ page_num = Len(pages)
    /\ table_num < Len(tables)
    /\ LET table == tables[table_num + 1]
       IN  IF create_table_chunk_raises(table)
           THEN /\ err' = "TypeError"
                /\ pc' = "raised"
                /\ UNCHANGED <<chunks, table_num>>
           ELSE /\ chunks' = Append(chunks, create_table_chunk(table))
                /\ table_num' = table_num + 1
                /\ UNCHANGED <<pc, err>>
    /\ UNCHANGED <<extraction_result, pages, tables, page_num, groups, i, merged_chunks,
                   table_rows, position_names, table_structure, row_groups, regrouped, summary,
                   cell_details, cell_parsed>>

\* return chunks (line 88)
ChunkReturn ==
    /\ pc = "chunking"
    /\ page_num = Len(pages)
    /\ table_num = Len(tables)
    /\ pc' = "returned"
    /\ UNCHANGED <<err, extraction_result, pages, tables, page_num, table_num, groups, chunks, i,
                   merged_chunks, table_rows, position_names, table_structure, row_groups,
                   regrouped, summary, cell_details, cell_parsed>>

\* SpatialInvoiceChunker._process_tables on the tables of the extraction
ProcessTables ==
    /\ pc = "idle"
    /\ tables' = Get(Get(extraction_result, "table_extraction", EMPTY_DICT), "tables", << >>)
    /\ chunks' = Map(tables', process_table)
    /\ pc' = "tables_processed"
    /\ UNCHANGED <<err, extraction_result, pages, page_num, table_num, groups, i, merged_chunks,
                   table_rows, position_names, table_structure, row_groups, regrouped, summary,
                   cell_details, cell_parsed>>

\* the exception SpatialInvoiceChunker._classify_region ends with: line 305
\* reads e['text'] and line 308 e['bbox'] of every element, and line 316 reads
\* self.header_keywords, an attribute that no line of the class sets; the
\* returns of lines 317-344 are never reached
classify_region_raises(elements) ==
    IF \E n \in 1..Len(elements) : "text" \notin DOMAIN elements[n] THEN "KeyError"
    ELSE IF \E n \in 1..Len(elements) : "bbox" \notin DOMAIN elements[n] THEN "KeyError"
    ELSE "AttributeError"

\* SpatialInvoiceChunker._classify_region on the elements of a page
ClassifyRegion ==
    /\ pc = "idle"
    /\ pages' = Get(Get(extraction_result, "text_extraction", EMPTY_DICT), "pages", << >>)
    /\ \E n \in 1..Len(pages') :
          /\ page_num' = n
          /\ err' = classify_region_raises(pages'[n].elements)
    /\ pc' = "classify_region_raised"
    /\ UNCHANGED <<extraction_result, tables, table_num, groups, chunks, i, merged_chunks,
                   table_rows, position_names, table_structure, row_groups, regrouped, summary,
                   cell_details, cell_parsed>>

Next ==
    \/ chunk_invoice_extraction
    \/ ChunkPage
    \/ ChunkTable
    \/ ChunkReturn
    \/ ProcessTables
    \/ ClassifyRegion

Spec == Init /\ [][Next]_vars

(***************************************************************************)
(* The chunk merger                                                        *)
(***************************************************************************)
\* "Within 30 pixels" of line 446
MERGE_DISTANCE == 30

\* _should_merge_chunks with the distance of line 446 compared by <=
should_merge_chunks_at_distance(chunk1, chunk2) ==
    IF chunk1.chunk_type = "line_items_header" /\ chunk2.chunk_type = "table_data" THEN TRUE
    ELSE IF /\ chunk1.page_number = chunk2.page_number
            /\ Abs(chunk1.bbox[4] - chunk2.bbox[2]) <= MERGE_DISTANCE
         THEN TRUE
    ELSE FALSE

\* SpatialInvoiceChunker._should_merge_chunks
should_merge_chunks(chunk1, chunk2) ==
    IF chunk1.chunk_type = "line_items_header" /\ chunk2.chunk_type = "table_data" THEN TRUE
    ELSE IF /\ chunk1.page_number = chunk2.page_number
            /\ Abs(chunk1.bbox[4] - chunk2.bbox[2]) < MERGE_DISTANCE
         THEN TRUE
    ELSE FALSE

\* _merge_two_chunks with lines 460-461 left out: the type is always that of the
\* chunk line 459 picks
merge_two_chunks_by_confidence(chunk1, chunk2) ==
    InvoiceChunk(chunk1.content \o "\n" \o chunk2.content,
                 IF chunk1.confidence > chunk2.confidence
                 THEN chunk1.chunk_type ELSE chunk2.chunk_type,
                 chunk1.elements \o chunk2.elements,
                 <<Min({chunk1.bbox[1], chunk2.bbox[1]}), Min({chunk1.bbox[2], chunk2.bbox[2]}),
                   Max({chunk1.bbox[3], chunk2.bbox[3]}), Max({chunk1.bbox[4], chunk2.bbox[4]})>>,
                 chunk1.page_number, Max({chunk1.confidence, chunk2.confidence}))

\* _merge_two_chunks with the page number of the second chunk
merge_two_chunks_second_page(chunk1, chunk2) ==
    LET combined_content == chunk1.content \o "\n" \o chunk2.content
        by_confidence == IF chunk1.confidence > chunk2.confidence
                         THEN chunk1.chunk_type ELSE chunk2.chunk_type
        chunk_type == IF chunk1.chunk_type = "line_items_header"
                          /\ chunk2.chunk_type = "table_data"
                      THEN "line_items" ELSE by_confidence
        combined_bbox == <<Min({chunk1.bbox[1], chunk2.bbox[1]}),
                           Min({chunk1.bbox[2], chunk2.bbox[2]}),
                           Max({chunk1.bbox[3], chunk2.bbox[3]}),
                           Max({chunk1.bbox[4], chunk2.bbox[4]})>>
        combined_elements == chunk1.elements \o chunk2.elements
    IN  InvoiceChunk(combined_content, chunk_type, combined_elements, combined_bbox,
                     chunk2.page_number, Max({chunk1.confidence, chunk2.confidence}))

\* _merge_two_chunks with line 459 comparing by >=: a tie keeps the first type
merge_two_chunks_tie_keeps_first(chunk1, chunk2) ==
    LET combined_content == chunk1.content \o "\n" \o chunk2.content
        by_confidence == IF chunk1.confidence >= chunk2.confidence
                         THEN chunk1.chunk_type ELSE chunk2.chunk_type
        chunk_type == IF chunk1.chunk_type = "line_items_header"
                          /\ chunk2.chunk_type = "table_data"
                      THEN "line_items" ELSE by_confidence
        combined_bbox == <<Min({chunk1.bbox[1], chunk2.bbox[1]}),
                           Min({chunk1.bbox[2], chunk2.bbox[2]}),
                           Max({chunk1.bbox[3], chunk2.bbox[3]}),
                           Max({chunk1.bbox[4], chunk2.bbox[4]})>>
        combined_elements == chunk1.elements \o chunk2.elements
    IN  InvoiceChunk(combined_content, chunk_type, combined_elements, combined_bbox,
                     chunk1.page_number, Max({chunk1.confidence, chunk2.confidence}))

\* SpatialInvoiceChunker._merge_two_chunks
merge_two_chunks(chunk1, chunk2) ==
    LET combined_content == chunk1.content \o "\n" \o chunk2.content
        by_confidence == IF chunk1.confidence > chunk2.confidence
                         THEN chunk1.chunk_type ELSE chunk2.chunk_type
        chunk_type == IF chunk1.chunk_type = "line_items_header"
                          /\ chunk2.chunk_type = "table_data"
                      THEN "line_items" ELSE by_confidence
        combined_bbox == <<Min({chunk1.bbox[1], chunk2.bbox[1]}),
                           Min({chunk1.bbox[2], chunk2.bbox[2]}),
                           Max({chunk1.bbox[3], chunk2.bbox[3]}),
                           Max({chunk1.bbox[4], chunk2.bbox[4]})>>
        combined_elements == chunk1.elements \o chunk2.elements
    IN  InvoiceChunk(combined_content, chunk_type, combined_elements, combined_bbox,
                     chunk1.page_number, Max({chunk1.confidence, chunk2.confidence}))

\* the loop body with the two chunks kept next to the merged chunk
merge_step_appends_keeps_originals(seq, i0) ==
    IF i0 + 1 < Len(seq) /\ should_merge_chunks(seq[i0 + 1], seq[i0 + 2])
    THEN <<seq[i0 + 1], seq[i0 + 2], merge_two_chunks(seq[i0 + 1], seq[i0 + 2])>>
    ELSE <<seq[i0 + 1]>>

\* what one iteration of the loop of _merge_related_chunks (lines 418-431)
\* appends to merged_chunks when it is at index i0 (0-based) of seq
merge_step_appends(seq, i0) ==
    IF i0 + 1 < Len(seq) /\ should_merge_chunks(seq[i0 + 1], seq[i0 + 2])
    THEN <<merge_two_chunks(seq[i0 + 1], seq[i0 + 2])>>
    ELSE <<seq[i0 + 1]>>

\* the advance of a loop that never skips the chunk it has just merged
merge_step_advance_by_one(seq, i0) == 1

\* and how far it advances i
merge_step_advance(seq, i0) ==
    IF i0 + 1 < Len(seq) /\ should_merge_chunks(seq[i0 + 1], seq[i0 + 2]) THEN 2 ELSE 1

\* Inputs of the merger: InvoiceChunk values as the dataclass types them.
\* A and B are boxes of one column: A ends 5 above the top of B, B ends 200
\* from the top of A.
BOX_A == <<50, 100, 500, 120>>
BOX_B == <<50, 125, 500, 300>>
\* C starts exactly 30 below the bottom of A
BOX_C == <<50, 150, 500, 271>>

MergeGeometry == {<<1, BOX_A>>, <<1, BOX_B>>, <<1, BOX_C>>, <<2, BOX_A>>}

MergeLabels ==
    {<<"line_items_header", 70, "Items", <<E_DESC>> >>,
     <<"line_items_header", 90, "Items", <<E_DESC>> >>,
     <<"table_data", 80, "Consulting | 2", << >> >>,
     <<"totals", 80, "Total 5", <<E_GESAMT>> >>}

ChunkUniverse ==
    {InvoiceChunk(l[3], l[1], l[4], g[2], g[1], l[2]) : l \in MergeLabels, g \in MergeGeometry}

\* chunks in one input of _merge_related_chunks
MaxChunks == 3

InitMerge ==
    /\ pc = "merge_idle" /\ err = "none"
    /\ extraction_result = EMPTY_DICT
    /\ chunks \in SeqsUpTo(ChunkUniverse, MaxChunks)
    /\ pages = << >>
    /\ ChunkerIdle /\ MergerIdle /\ GrouperIdle /\ SummaryIdle /\ ParserIdle /\ NormalizerIdle

\* SpatialInvoiceChunker._merge_related_chunks, lines 414-415
merge_related_chunks ==
    /\ pc = "merge_idle"
    /\ merged_chunks' = << >>
    /\ i' = 0
    /\ pc' = "merging"
    /\ UNCHANGED <<err, extraction_result, pages, tables, page_num, table_num, groups, chunks,
                   table_rows, position_names, table_structure, row_groups, regrouped, summary,
                   cell_details, cell_parsed>>

\* one iteration of the while loop (lines 417-431)
MergeStep ==
    /\ pc = "merging"
    /\ i < Len(chunks)
    /\ merged_chunks' = merged_chunks \o merge_step_appends(chunks, i)
    /\ i' = i + merge_step_advance(chunks, i)
    /\ UNCHANGED <<pc, err, extraction_result, pages, tables, page_num, table_num, groups, chunks,
                   table_rows, position_names, table_structure, row_groups, regrouped, summary,
                   cell_details, cell_parsed>>

\* return merged_chunks (line 433)
MergeReturn ==
    /\ pc = "merging"
    /\ ~(i < Len(chunks))
    /\ pc' = "merge_returned"
    /\ UNCHANGED <<err, extraction_result, pages, tables, page_num, table_num, groups, chunks, i,
                   merged_chunks, table_rows, position_names, table_structure, row_groups,
                   regrouped, summary, cell_details, cell_parsed>>

\* _merge_two_chunks(chunk1, chunk2) called on the two chunks of the list
MergeTwoChunks ==
    /\ pc = "merge_idle"
    /\ Len(chunks) = 2
    /\ merged_chunks' = <<merge_two_chunks(chunks[1], chunks[2])>>
    /\ pc' = "two_merged"
    /\ UNCHANGED <<err, extraction_result, pages, tables, page_num, table_num, groups, chunks, i,
                   table_rows, position_names, table_structure, row_groups, regrouped, summary,
                   cell_details, cell_parsed>>

NextMerge == merge_related_chunks \/ MergeStep \/ MergeReturn \/ MergeTwoChunks

SpecMerge == InitMerge /\ [][NextMerge]_vars

(***************************************************************************)
(* normalizer.py: extract_position_names                                   *)
(***************************************************************************)
\* None where the other values are str
NoneStr == "None"

\* s.replace(c, '') for a character c
RECURSIVE remove_char(_, _)
remove_char(s, c) ==
    IF s = "" THEN ""
    ELSE (IF Head(s) = c THEN "" ELSE Head(s)) \o remove_char(Tail(s), c)

\* s.isdigit()
isdigit(s) == s # "" /\ \A k \in 1..Len(s) : Chr(s, k) \in DIGITS

\* s.isupper(): a cased character, and no lowercase one
isupper(s) ==
    /\ \E k \in 1..Len(s) : Chr(s, k) \in CharsOf(UPPER)
    /\ \A k \in 1..Len(s) : Chr(s, k) \notin CharsOf(LOWER)

\* len(s.split()): the runs of non-whitespace characters
word_count(s) ==
    Cardinality({k \in 1..Len(s) :
        /\ Chr(s, k) \notin WHITESPACE
        /\ (k = 1 \/ Chr(s, k - 1) \in WHITESPACE)})

\* any(char in s for char in chars)
has_any_char(s, chars) == \E k \in 1..Len(s) : Chr(s, k) \in chars

\* text.replace(',', '').replace('.', '').isdigit()
is_number(text) == isdigit(remove_char(remove_char(text, ","), "."))

DESCRIPTION_KEYWORDS == {"beschreibung", "description", "artikel", "item", "position"}

\* lines 242-247: the 1-based index of the description column, 0 for None
desc_col_idx(header_row) ==
    LET hits == {n \in 1..Len(header_row) :
                    \E keyword \in DESCRIPTION_KEYWORDS : Contains(lower(header_row[n]), keyword)}
    IN  IF hits = {} THEN 0 ELSE Min(hits)

\* lines 250-257: the entries one data row adds
RECURSIVE table_candidates(_, _)
table_candidates(rows, idx) ==
    IF rows = << >> THEN << >>
    ELSE LET row == Head(rows)
             desc == IF idx # 0 /\ Len(row) >= idx THEN strip(row[idx]) ELSE ""
         IN  (IF desc # "" /\ ~has_any_char(desc, {EURO, "%", ","})
              THEN <<[name |-> desc, source |-> "table_description_column"]>>
              ELSE << >>)
             \o table_candidates(Tail(rows), idx)

\* sorted(page["elements"], key=lambda e: e["bbox"][1]): stable, ascending
RECURSIVE insert_asc(_, _)
insert_asc(sorted, e) ==
    IF sorted = << >> THEN <<e>>
    ELSE IF sorted[1].bbox[2] <= e.bbox[2]
         THEN <<Head(sorted)>> \o insert_asc(Tail(sorted), e)
         ELSE <<e>> \o sorted

RECURSIVE sorted_asc(_)
sorted_asc(seq) ==
    IF seq = << >> THEN << >>
    ELSE insert_asc(sorted_asc(SubSeq(seq, 1, Len(seq) - 1)), seq[Len(seq)])

\* lines 263-293 for the element at index n (1-based) of the sorted elements
content_candidate(elements, n) ==
    LET el == elements[n]
        text == strip(el.text)
        skipped == text = "" \/ has_any_char(text, {EURO, "%"}) \/ is_number(text)
        next_elements == SubSeq(elements, n + 1, Min({n + 3, Len(elements)}))
        has_numeric_following ==
            \E m \in 1..Len(next_elements) :
                \/ has_any_char(next_elements[m].text, {EURO, "%", ","})
                \/ is_number(next_elements[m].text)
        is_likely_position ==
            /\ word_count(text) >= 2
            /\ Len(text) > 5
            /\ ~isupper(text)
            /\ has_numeric_following
    IN  IF ~skipped /\ is_likely_position
        THEN <<[name |-> text, source |-> "content_analysis", bbox |-> el.bbox,
                page |-> el.page]>>
        ELSE << >>

RECURSIVE page_candidates(_, _)
page_candidates(elements, n) ==
    IF n > Len(elements) THEN << >>
    ELSE content_candidate(elements, n) \o page_candidates(elements, n + 1)

RECURSIVE content_candidates(_)
content_candidates(ps) ==
    IF ps = << >> THEN << >>
    ELSE page_candidates(sorted_asc(Head(ps).elements), 1) \o content_candidates(Tail(ps))

\* lines 236-293: position_names before the duplicates are removed
position_candidates(ps, rows) ==
    (IF rows # << >> THEN table_candidates(Tail(rows), desc_col_idx(Head(rows))) ELSE << >>)
    \o content_candidates(ps)

\* lines 295-301 without seen.add of line 300
RECURSIVE unique_positions_never_seen(_, _)
unique_positions_never_seen(candidates, seen) ==
    IF candidates = << >> THEN << >>
    ELSE <<Head(candidates)>> \o unique_positions_never_seen(Tail(candidates), seen)

\* lines 295-301: the entries whose name was not seen before, in order
RECURSIVE unique_positions(_, _)
unique_positions(candidates, seen) ==
    IF candidates = << >> THEN << >>
    ELSE LET pos == Head(candidates)
         IN  IF pos.name \notin seen
             THEN <<pos>> \o unique_positions(Tail(candidates), seen \cup {pos.name})
             ELSE unique_positions(Tail(candidates), seen)

extract_position_names_result(ps, rows) == unique_positions(position_candidates(ps, rows), {})

(***************************************************************************)
(* normalizer.py: reconstruct_table_structure                              *)
(***************************************************************************)
SUMMARY_KEYWORDS ==
    {"summe", "steuer", "tax", "total", "gesamt", "zwischensumme", "umsatzsteuer"}

\* lines 323-326 without .lower()
is_summary_case_sensitive(row) ==
    LET row_text == join(" ", row)
    IN  \E keyword \in SUMMARY_KEYWORDS : Contains(row_text, keyword)

\* lines 323-326
is_summary(row) ==
    LET row_text == lower(join(" ", row))
    IN  \E keyword \in SUMMARY_KEYWORDS : Contains(row_text, keyword)

\* line 315 without the slice: the header row is a data row too
data_rows_of_all(rows) == rows

\* line 315
data_rows_of(rows) == IF Len(rows) > 1 THEN Tail(rows) ELSE << >>

\* lines 337-341, for the item row at index n0 (0-based)
matched_name(names, n0) ==
    LET kept == SelectSeq(names, LAMBDA p : ~Contains(lower(p.name), "summe"))
        pos_names == Map(kept, LAMBDA p : p.name)
    IN  IF n0 < Len(names) /\ n0 < Len(pos_names) THEN pos_names[n0 + 1] ELSE NoneStr

\* lines 344-347 with an empty cell for every header the row does not reach
item_data_defaulted(headers, item_row) ==
    [header \in {headers[j] : j \in 1..Len(headers)} |->
        LET j == Max({k \in 1..Len(headers) : headers[k] = header})
        IN  IF j <= Len(item_row) THEN item_row[j] ELSE ""]

\* lines 344-347: a later header of the same name overwrites an earlier one
item_data(headers, item_row) ==
    LET js == {j \in 1..Len(headers) : j <= Len(item_row)}
    IN  [header \in {headers[j] : j \in js} |->
            item_row[Max({j \in js : headers[j] = header})]]

matched_items(headers, item_rows, names) ==
    [n \in 1..Len(item_rows) |->
        [position_name |-> matched_name(names, n - 1),
         table_data |-> item_data(headers, item_rows[n]),
         raw_row |-> item_rows[n]]]

\* reconstruct_table_structure with line 311 returning an empty list, not None
reconstruct_table_structure_empty_list(rows, names) ==
    IF rows = << >> THEN << >>
    ELSE LET headers == Head(rows)
             data_rows == data_rows_of(rows)
             item_rows == SelectSeq(data_rows, LAMBDA row : ~is_summary(row))
             summary_rows == SelectSeq(data_rows, is_summary)
             items == matched_items(headers, item_rows, names)
         IN  [headers |-> headers,
              items |-> items,
              summary |-> summary_rows,
              table_format |-> [type |-> "invoice_table", columns |-> Len(headers),
                                item_count |-> Len(items),
                                has_summary |-> Len(summary_rows) > 0]]

reconstruct_table_structure_result(rows, names) ==
    IF rows = << >> THEN None
    ELSE LET headers == Head(rows)
             data_rows == data_rows_of(rows)
             item_rows == SelectSeq(data_rows, LAMBDA row : ~is_summary(row))
             summary_rows == SelectSeq(data_rows, is_summary)
             items == matched_items(headers, item_rows, names)
         IN  [headers |-> headers,
              items |-> items,
              summary |-> summary_rows,
              table_format |-> [type |-> "invoice_table", columns |-> Len(headers),
                                item_count |-> Len(items),
                                has_summary |-> Len(summary_rows) > 0]]

(***************************************************************************)
(* Inputs of the normalizer: the elements of extract_text_elements_pdfplumber *)
(* (text, bbox, page) and the rows of extract_table_rows.                  *)
(***************************************************************************)
N_WEB == [text |-> "Web Design", bbox |-> <<50, 100, 200, 112>>, page |-> 1]
\* the same name once stripped, lower on the page
N_WEB_LOW == [text |-> " Web Design ", bbox |-> <<50, 200, 200, 212>>, page |-> 1]
N_PRICE == [text |-> "12,50 " \o EURO, bbox |-> <<400, 200, 460, 212>>, page |-> 1]

NormElementUniverse == {N_WEB, N_WEB_LOW, N_PRICE}

R_HEADER == <<"Description", "Qty">>
R_WEB == <<"Web Design", "2">>
R_SUM == <<"Summe", "160,00 " \o EURO>>

RowUniverse == {R_HEADER, R_WEB, R_SUM}

\* table rows, pages and elements of one normalizer input, together
MaxNormInput == 5

InitNorm ==
    /\ pc = "norm_idle" /\ err = "none"
    /\ extraction_result = EMPTY_DICT
    /\ pages \in PageLists(NormElementUniverse, MaxNormInput)
    /\ table_rows \in SeqsUpTo(RowUniverse, MaxNormInput - Size(pages))
    /\ chunks = << >>
    /\ ChunkerIdle /\ MergerIdle /\ GrouperIdle /\ SummaryIdle /\ ParserIdle /\ NormalizerResultsIdle

\* extract_position_names(pages, table_rows), as format_llm_ready calls it
extract_position_names ==
    /\ pc = "norm_idle"
    /\ position_names' = extract_position_names_result(pages, table_rows)
    /\ pc' = "names_extracted"
    /\ UNCHANGED <<err, extraction_result, pages, tables, page_num, table_num, groups, chunks, i,
                   merged_chunks, table_rows, table_structure, row_groups, regrouped, summary,
                   cell_details, cell_parsed>>

\* reconstruct_table_structure(table_rows, position_names): with the names just
\* extracted, or with an empty name list
reconstruct_table_structure ==
    /\ pc \in {"norm_idle", "names_extracted"}
    /\ table_structure' = reconstruct_table_structure_result(table_rows, position_names)
    /\ pc' = "table_reconstructed"
    /\ UNCHANGED <<err, extraction_result, pages, tables, page_num, table_num, groups, chunks, i,
                   merged_chunks, table_rows, position_names, row_groups, regrouped, summary,
                   cell_details, cell_parsed>>

NextNorm == extract_position_names \/ reconstruct_table_structure

SpecNorm == InitNorm /\ [][NextNorm]_vars

(***************************************************************************)
(* Properties.                                                             *)
(***************************************************************************)

\* C1 - merge monotonicity: the sequence _merge_related_chunks returns is never
\* longer than the sequence it was given.
C1_MergeMonotonicity == pc = "merge_returned" => Len(merged_chunks) <= Len(chunks)

\* a pass over three chunks that merged two of them and kept the third
C1_Witness ==
    /\ pc = "merge_returned"
    /\ Len(chunks) = 3
    /\ Len(merged_chunks) = 2

\* C7 - header label + table: when the loop of _merge_related_chunks is at a
\* line_items_header chunk that is followed by a table_data chunk, the step
\* consumes both and appends one chunk, made of the two, of type line_items.
C7_HeaderTableMerge ==
    [][(/\ pc = "merging"
        /\ i + 1 < Len(chunks)
        /\ chunks[i + 1].chunk_type = "line_items_header"
        /\ chunks[i + 2].chunk_type = "table_data")
       => (/\ i' = i + 2
           /\ Len(merged_chunks') = Len(merged_chunks) + 1
           /\ SubSeq(merged_chunks', 1, Len(merged_chunks)) = merged_chunks
           /\ LET merged == merged_chunks'[Len(merged_chunks')]
              IN  /\ merged.chunk_type = "line_items"
                  /\ merged.content = chunks[i + 1].content \o "\n" \o chunks[i + 2].content
                  /\ merged.elements = chunks[i + 1].elements \o chunks[i + 2].elements)]_vars

\* a header on page 1 and a table on page 2, 175 units from each other, the
\* header the less confident of the two, merged into a line_items chunk
C7_Witness ==
    /\ pc = "merge_returned"
    /\ Len(chunks) = 2
    /\ chunks[1].chunk_type = "line_items_header"
    /\ chunks[2].chunk_type = "table_data"
    /\ chunks[1].page_number # chunks[2].page_number
    /\ chunks[1].confidence < chunks[2].confidence
    /\ Len(merged_chunks) = 1
    /\ merged_chunks[1].chunk_type = "line_items"

\* C2 - confidence bound: every chunk the chunker has produced, from fragment
\* groups or from tables, has a confidence between 0 and 1 (0 and 100 hundredths).
C2_ConfidenceBound ==
    \A n \in 1..Len(chunks) : 0 <= chunks[n].confidence /\ chunks[n].confidence <= 100

\* the six labels of the spec
CLOSED_LABEL_SET == {"header", "addresses", "line_items", "totals", "footer", "table_data"}

\* C3 - closed label set: every chunk produced carries one of the six labels,
\* and no classification ends in an error instead of a label.
C3_ClosedLabelSet ==
    /\ \A n \in 1..Len(chunks) : chunks[n].chunk_type \in CLOSED_LABEL_SET
    /\ pc # "classify_region_raised"

\* the keywords the claim names
C4_KEYWORDS == {"total", "gesamt", "summe", "steuer", "mwst"}

\* the groups of the page processed last that hold the element e
C4_GroupsHolding(e) ==
    {t \in DOMAIN groups : \E n \in 1..Len(groups[t]) : groups[t][n] = e}

\* C4 - totals pre-filter precedence: an element of the page just grouped whose
\* lowercase text contains a totals keyword is in the totals group and in no other.
C4_TotalsPrecedence ==
    (pc \in {"chunking", "returned", "raised"} /\ page_num > 0) =>
        LET elements == pages[page_num].elements
        IN  \A n \in 1..Len(elements) :
                (\E kw \in C4_KEYWORDS : Contains(lower(Get(elements[n], "text", "")), kw))
                    => C4_GroupsHolding(elements[n]) = {"totals"}

\* a page whose "Total Qty 2 x 3.50" (a qty and a quantity pattern, left of the
\* margin) went to totals while another element of the page went to line_items
C4_Witness ==
    /\ pc = "chunking" /\ page_num > 0
    /\ \E n \in 1..Len(groups["totals"]) : groups["totals"][n] = E_TOTAL_QTY
    /\ groups["line_items"] # << >>

\* C8 - totality over partial input: chunk_invoice_spatially raises for no
\* element and no table that lacks a field or has a null bbox.
C8_NeverRaises == pc # "raised"

\* the groups of page p (1-based) that are not empty, in the fixed order
C10_Labels(p) ==
    LET page_groups == adaptive_spatial_grouping(pages[p].elements)
    IN  SelectSeq(<<"header", "addresses", "line_items", "totals", "footer">>,
                  LAMBDA t : page_groups[t] # << >>)

\* <<label, page number>> for every chunk the pages p.. are to give
RECURSIVE C10_PageChunks(_)
C10_PageChunks(p) ==
    IF p > Len(pages) THEN << >>
    ELSE LET labels == C10_Labels(p)
         IN  [n \in 1..Len(labels) |-> <<labels[n], p>>] \o C10_PageChunks(p + 1)

\* C10 - chunk count and order: what chunk_invoice_spatially returns is, page by
\* page, one chunk per non-empty group in the order header, addresses,
\* line_items, totals, footer, numbered with the page's 1-based index, and then
\* one chunk per table in table order; an input without tables never ends in
\* an error, and the empty input gives no chunk.
C10_CountAndOrder ==
    /\ (pc = "raised" => tables # << >>)
    /\ pc = "returned" =>
        LET expected == C10_PageChunks(1)
            k == Len(expected)
        IN  /\ Len(chunks) = k + Len(tables)
            /\ \A n \in 1..k :
                  /\ chunks[n].chunk_type = expected[n][1]
                  /\ chunks[n].page_number = expected[n][2]
                  /\ chunks[n].elements # << >>
            /\ \A n \in 1..Len(tables) :
                  /\ chunks[k + n].elements = << >>
                  /\ chunks[k + n].bbox = Get(tables[n], "bbox", <<0, 0, 0, 0>>)
                  /\ chunks[k + n].page_number = Get(tables[n], "page", 1)

\* two pages, the first empty, the second with one group, and one table
C10_Witness ==
    /\ pc = "returned"
    /\ Len(pages) = 2 /\ Len(tables) = 1
    /\ Len(chunks) = 2
    /\ chunks[1].page_number = 2
    /\ chunks[2].chunk_type = "line_items" /\ chunks[2].elements = << >>

\* C5 - table item bound: for non-empty table_rows the items of the structure
\* reconstruct_table_structure returns are at most len(table_rows) - 1.
C5_TableItemBound ==
    (pc = "table_reconstructed" /\ table_rows # << >>) =>
        Len(table_structure.items) <= Len(table_rows) - 1

\* header, one item row and one summary row: a single item; and a table of
\* three rows whose two data rows are both items
C5_Witness ==
    /\ pc = "table_reconstructed"
    /\ Len(table_rows) = 3
    /\ Len(table_structure.items) = 2

\* the candidates of the run in candidate order: table column first, then content
C6_Candidates == position_candidates(pages, table_rows)

\* the index of the first candidate called name
C6_First(name) ==
    Min({n \in 1..Len(C6_Candidates) : C6_Candidates[n].name = name})

\* C6 - position-name dedup: the list extract_position_names returns has no two
\* entries of the same name, has an entry for every candidate name, keeps for a
\* name its first candidate, and keeps the candidates' relative order.
C6_PositionNameDedup ==
    pc = "names_extracted" =>
        /\ \A a, b \in 1..Len(position_names) :
               a # b => position_names[a].name # position_names[b].name
        /\ \A n \in 1..Len(C6_Candidates) :
               \E a \in 1..Len(position_names) :
                   position_names[a].name = C6_Candidates[n].name
        /\ \A a \in 1..Len(position_names) :
               /\ \E n \in 1..Len(C6_Candidates) :
                      C6_Candidates[n].name = position_names[a].name
               /\ position_names[a] = C6_Candidates[C6_First(position_names[a].name)]
        /\ \A a, b \in 1..Len(position_names) :
               a < b => C6_First(position_names[a].name) < C6_First(position_names[b].name)

\* "Web Design" is a table-column candidate and a content candidate: the table
\* entry is kept and the content entry dropped
C6_Witness ==
    /\ pc = "names_extracted"
    /\ Len(C6_Candidates) = 2
    /\ C6_Candidates[1].source = "table_description_column"
    /\ C6_Candidates[2].source = "content_analysis"
    /\ C6_Candidates[2].name = C6_Candidates[1].name
    /\ position_names = <<C6_Candidates[1]>>

\* C9 (as stated) - empty table input: with no table rows,
\* reconstruct_table_structure returns None and extract_position_names returns
\* an empty list, whatever the page fragments are.
C9_EmptyTableInput ==
    table_rows = << >> =>
        /\ pc = "table_reconstructed" => table_structure = None
        /\ pc \in {"names_extracted", "table_reconstructed"} => position_names = << >>

\* C9 (amended) - empty table input: with no table rows,
\* reconstruct_table_structure returns None and extract_position_names returns
\* no table-column entry: only content-analysis entries, and none at all when
\* the pages hold no fragments.
C9_EmptyTableInputAmended ==
    table_rows = << >> =>
        /\ pc = "table_reconstructed" => table_structure = None
        /\ pc \in {"names_extracted", "table_reconstructed"} =>
              /\ \A a \in 1..Len(position_names) :
                     position_names[a].source = "content_analysis"
              /\ (\A p \in 1..Len(pages) : pages[p].elements = << >>)
                     => position_names = << >>

\* no rows, a page with a name followed by a price: a content entry is
\* returned and the structure is None
C9_Witness ==
    /\ pc = "table_reconstructed"
    /\ table_rows = << >>
    /\ table_structure = None
    /\ Len(position_names) = 1
    /\ position_names[1].source = "content_analysis"

(***************************************************************************)
(* normalizer.py: extract_table_rows                                       *)
(***************************************************************************)
\* stand-in for the pound sign of line 150
POUND == ";"

\* line 149
NUMERIC == Cat(<<Plus(D), Cls({".", ","}), Plus(D)>>)

\* lines 144-153: is the element appended to table_candidates
is_table_candidate(el) ==
    LET text == strip(el.text)
    IN  /\ text # ""
        /\ \/ re_search(NUMERIC, text)
           \/ has_any_char(text, {EURO, "$", POUND, "%"})
           \/ word_count(text) <= 3

\* line 160
ROW_TOLERANCE == 5

\* lines 163-176 for one element: rows_dict as the sequence of its
\* <<key, elements>> items in insertion order
RECURSIVE rows_dict_add(_, _)
rows_dict_add(rows_dict, el) ==
    IF rows_dict = << >> THEN << <<el.bbox[2], <<el>> >> >>
    ELSE IF Abs(el.bbox[2] - Head(rows_dict)[1]) <= ROW_TOLERANCE
         THEN << <<Head(rows_dict)[1], Append(Head(rows_dict)[2], el)>> >> \o Tail(rows_dict)
         ELSE <<Head(rows_dict)>> \o rows_dict_add(Tail(rows_dict), el)

RECURSIVE rows_dict_of(_)
rows_dict_of(candidates) ==
    IF candidates = << >> THEN << >>
    ELSE rows_dict_add(rows_dict_of(SubSeq(candidates, 1, Len(candidates) - 1)),
                       candidates[Len(candidates)])

\* sorted(rows_dict.keys()), each key with its row
RECURSIVE insert_by_key(_, _)
insert_by_key(sorted, item) ==
    IF sorted = << >> THEN <<item>>
    ELSE IF Head(sorted)[1] <= item[1]
         THEN <<Head(sorted)>> \o insert_by_key(Tail(sorted), item)
         ELSE <<item>> \o sorted

RECURSIVE sorted_by_key(_)
sorted_by_key(items) ==
    IF items = << >> THEN << >>
    ELSE insert_by_key(sorted_by_key(SubSeq(items, 1, Len(items) - 1)), items[Len(items)])

\* sorted(rows_dict[y_pos], key=lambda e: e["bbox"][0]): stable, ascending
RECURSIVE insert_by_left(_, _)
insert_by_left(sorted, e) ==
    IF sorted = << >> THEN <<e>>
    ELSE IF Head(sorted).bbox[1] <= e.bbox[1]
         THEN <<Head(sorted)>> \o insert_by_left(Tail(sorted), e)
         ELSE <<e>> \o sorted

RECURSIVE sorted_by_left(_)
sorted_by_left(seq) ==
    IF seq = << >> THEN << >>
    ELSE insert_by_left(sorted_by_left(SubSeq(seq, 1, Len(seq) - 1)), seq[Len(seq)])

\* lines 180-184 without the test of line 184: every row is kept
RECURSIVE kept_rows_with_single_cells(_)
kept_rows_with_single_cells(items) ==
    IF items = << >> THEN << >>
    ELSE <<sorted_by_left(Head(items)[2])>> \o kept_rows_with_single_cells(Tail(items))

\* lines 180-184: the rows of elements that are kept, in key order
RECURSIVE kept_rows(_)
kept_rows(items) ==
    IF items = << >> THEN << >>
    ELSE LET row_elements == sorted_by_left(Head(items)[2])
         IN  (IF Len(row_elements) >= 2 THEN <<row_elements>> ELSE << >>)
             \o kept_rows(Tail(items))

\* lines 141-184 for the elements of one page: the rows as element lists
row_elements_of(elements) ==
    kept_rows(sorted_by_key(rows_dict_of(SelectSeq(elements, is_table_candidate))))

\* line 185
row_texts(row_elements) ==
    LET texts == [n \in 1..Len(row_elements) |-> strip(row_elements[n].text)]
    IN  SelectSeq(texts, LAMBDA t : t # "")

\* lines 185-190 for one page
RECURSIVE page_table_rows(_)
page_table_rows(rows) ==
    IF rows = << >> THEN << >>
    ELSE (IF row_texts(Head(rows)) # << >> THEN <<row_texts(Head(rows))>> ELSE << >>)
         \o page_table_rows(Tail(rows))

RECURSIVE extract_table_rows_result(_)
extract_table_rows_result(ps) ==
    IF ps = << >> THEN << >>
    ELSE page_table_rows(row_elements_of(Head(ps).elements))
         \o extract_table_rows_result(Tail(ps))

\* the elements of the groups, group after group
RECURSIVE Flatten(_)
Flatten(gs) == IF gs = << >> THEN << >> ELSE Head(gs) \o Flatten(Tail(gs))

(***************************************************************************)
(* spatial_invoice_chunker.py: _group_by_spatial_regions                   *)
(***************************************************************************)
\* line 282
Y_THRESHOLD == 20

\* lines 284-294 with each element put at the front of its group
RECURSIVE regions_add_prepending(_, _)
regions_add_prepending(gs, sorted_elements) ==
    IF sorted_elements = << >> THEN gs
    ELSE LET element == Head(sorted_elements)
             current_group == gs[Len(gs)]
         IN  IF Abs(element.bbox[2] - current_group[1].bbox[2]) <= Y_THRESHOLD
             THEN regions_add_prepending(
                      SubSeq(gs, 1, Len(gs) - 1) \o << <<element>> \o current_group >>,
                      Tail(sorted_elements))
             ELSE regions_add_prepending(Append(gs, <<element>>), Tail(sorted_elements))

\* lines 284-294 with last_y read from the first element of the current group
RECURSIVE regions_add_from_group_start(_, _)
regions_add_from_group_start(gs, sorted_elements) ==
    IF sorted_elements = << >> THEN gs
    ELSE LET element == Head(sorted_elements)
             current_group == gs[Len(gs)]
             last_y == current_group[1].bbox[2]
         IN  IF Abs(element.bbox[2] - last_y) <= Y_THRESHOLD
             THEN regions_add_from_group_start(
                      SubSeq(gs, 1, Len(gs) - 1) \o <<Append(current_group, element)>>,
                      Tail(sorted_elements))
             ELSE regions_add_from_group_start(Append(gs, <<element>>),
                                               Tail(sorted_elements))

\* lines 284-297: gs is groups followed by current_group
RECURSIVE regions_add(_, _)
regions_add(gs, sorted_elements) ==
    IF sorted_elements = << >> THEN gs
    ELSE LET element == Head(sorted_elements)
             current_group == gs[Len(gs)]
             last_y == current_group[Len(current_group)].bbox[2]
         IN  IF Abs(element.bbox[2] - last_y) <= Y_THRESHOLD
             THEN regions_add(SubSeq(gs, 1, Len(gs) - 1) \o <<Append(current_group, element)>>,
                              Tail(sorted_elements))
             ELSE regions_add(Append(gs, <<element>>), Tail(sorted_elements))

\* SpatialInvoiceChunker._group_by_spatial_regions
group_by_spatial_regions_result(elements) ==
    IF elements = << >> THEN << >>
    ELSE LET sorted_elements == sorted_asc(elements)
         IN  regions_add(<< <<Head(sorted_elements)>> >>, Tail(sorted_elements))

(***************************************************************************)
(* Inputs and calls of the two grouping functions.                         *)
(***************************************************************************)
\* cells whose top edges are 5 apart, the middle one rightmost
P_DESC == [text |-> "Consulting", bbox |-> <<50, 0, 120, 10>>, page |-> 1]
P_QTY == [text |-> "2", bbox |-> <<200, 10, 210, 20>>, page |-> 1]
P_PRICE == [text |-> " 80,00 " \o EURO, bbox |-> <<300, 5, 350, 15>>, page |-> 1]
\* a cell 15 below the lowest of them, and one 15 below that
P_TAX == [text |-> "19%", bbox |-> <<300, 25, 330, 35>>, page |-> 1]
P_SUM == [text |-> "160,00", bbox |-> <<300, 40, 350, 50>>, page |-> 1]
\* a sentence, no table content, level with P_PRICE and left of it
P_NOTE == [text |-> "Thank you for your business", bbox |-> <<20, 5, 280, 15>>, page |-> 1]
\* whitespace only, level with P_SUM and left of it
P_BLANK == [text |-> " ", bbox |-> <<20, 40, 30, 50>>, page |-> 1]

PositionedUniverse == {P_DESC, P_QTY, P_PRICE, P_TAX, P_SUM, P_NOTE, P_BLANK}

\* elements of the page given to a grouping function
MaxElements == 3

InitGroup ==
    /\ pc = "group_idle" /\ err = "none"
    /\ extraction_result = EMPTY_DICT
    /\ \E els \in SeqsUpTo(PositionedUniverse, MaxElements) : pages = <<[elements |-> els]>>
    /\ chunks = << >>
    /\ ChunkerIdle /\ MergerIdle /\ GrouperIdle /\ SummaryIdle /\ ParserIdle /\ NormalizerIdle

\* extract_table_rows(pages); row_groups keeps the rows as element lists
extract_table_rows ==
    /\ pc = "group_idle"
    /\ table_rows' = extract_table_rows_result(pages)
    /\ row_groups' = row_elements_of(pages[1].elements)
    /\ pc' = "rows_extracted"
    /\ UNCHANGED <<err, extraction_result, pages, tables, page_num, table_num, groups, chunks, i,
                   merged_chunks, position_names, table_structure, regrouped, summary,
                   cell_details, cell_parsed>>

\* the same steps on the rows found, flattened in their order
RegroupRows ==
    /\ pc = "rows_extracted"
    /\ regrouped' = row_elements_of(Flatten(row_groups))
    /\ pc' = "rows_regrouped"
    /\ UNCHANGED <<err, extraction_result, pages, tables, page_num, table_num, groups, chunks, i,
                   merged_chunks, table_rows, position_names, table_structure, row_groups,
                   summary, cell_details, cell_parsed>>

\* SpatialInvoiceChunker._group_by_spatial_regions(elements)
group_by_spatial_regions ==
    /\ pc = "group_idle"
    /\ row_groups' = group_by_spatial_regions_result(pages[1].elements)
    /\ pc' = "regions_grouped"
    /\ UNCHANGED <<err, extraction_result, pages, tables, page_num, table_num, groups, chunks, i,
                   merged_chunks, table_rows, position_names, table_structure, regrouped, summary,
                   cell_details, cell_parsed>>

\* the same call on the groups found, concatenated in their order
RegroupRegions ==
    /\ pc = "regions_grouped"
    /\ regrouped' = group_by_spatial_regions_result(Flatten(row_groups))
    /\ pc' = "regions_regrouped"
    /\ UNCHANGED <<err, extraction_result, pages, tables, page_num, table_num, groups, chunks, i,
                   merged_chunks, table_rows, position_names, table_structure, row_groups,
                   summary, cell_details, cell_parsed>>

NextGroup == extract_table_rows \/ RegroupRows \/ group_by_spatial_regions \/ RegroupRegions

SpecGroup == InitGroup /\ [][NextGroup]_vars

\* C11 - table-row grouping idempotence: grouping the flattened rows of
\* extract_table_rows again, with the same tolerance, gives the same rows.
C11_RowGroupingIdempotent == pc = "rows_regrouped" => regrouped = row_groups

\* C12 - region grouping idempotence: grouping the concatenated groups of
\* _group_by_spatial_regions again gives the same groups, each in the same order.
C12_RegionGroupingIdempotent == pc = "regions_regrouped" => regrouped = row_groups

\* two groups, the first of two elements of equal top edge, regrouped alike
C12_Witness ==
    /\ pc = "regions_regrouped"
    /\ Len(row_groups) = 2
    /\ Len(row_groups[1]) = 2
    /\ row_groups[1][1].bbox[2] = row_groups[1][2].bbox[2]
    /\ row_groups[1][1] # row_groups[1][2]
    /\ regrouped = row_groups

(***************************************************************************)
(* The chunk list of chunk_invoice_spatially given to                      *)
(* _merge_related_chunks.                                                  *)
(***************************************************************************)
\* no content pattern, no totals keyword; at the bottom of the page
E_FOOTER == [text |-> "Page 1 of 1", bbox |-> <<50, 10, 200, 20>>]

FragmentUniverse == {E_DESC, E_FOOTER, E_GESAMT, E_BILLTO}

\* pages and elements of one document, together
MaxFragments == 4

InitChunkMerge ==
    /\ pc = "idle" /\ err = "none"
    /\ \E ps \in PageLists(FragmentUniverse, MaxFragments) :
          extraction_result = ExtractionResult(ps, << >>)
    /\ pages = << >> /\ chunks = << >>
    /\ ChunkerIdle /\ MergerIdle /\ GrouperIdle /\ SummaryIdle /\ ParserIdle /\ NormalizerIdle

\* _merge_related_chunks(chunks) on the list chunk_invoice_spatially returned
MergeReturnedChunks ==
    /\ pc = "returned"
    /\ i' = 0
    /\ merged_chunks' = << >>
    /\ pc' = "merging"
    /\ UNCHANGED <<err, extraction_result, pages, tables, page_num, table_num, groups, chunks,
                   table_rows, position_names, table_structure, row_groups, regrouped, summary,
                   cell_details, cell_parsed>>

NextChunkMerge ==
    \/ chunk_invoice_extraction
    \/ ChunkPage
    \/ ChunkReturn
    \/ MergeReturnedChunks
    \/ MergeStep
    \/ MergeReturn

SpecChunkMerge == InitChunkMerge /\ [][NextChunkMerge]_vars

\* the coordinate-wise min / max over the bboxes of the elements that carry
\* one, (0,0,0,0) when none does
C13_ElementsBBox(elements) ==
    LET boxes == {elements[n].bbox : n \in {m \in 1..Len(elements) :
                                              "bbox" \in DOMAIN elements[m]}}
    IN  IF boxes = {} THEN <<0, 0, 0, 0>>
        ELSE <<Min({b[1] : b \in boxes}), Min({b[2] : b \in boxes}),
               Max({b[3] : b \in boxes}), Max({b[4] : b \in boxes})>>

\* the part of C13 about the chunks built from fragment groups
C13_BuiltChunks ==
    \A n \in 1..Len(chunks) : chunks[n].bbox = C13_ElementsBBox(chunks[n].elements)

\* C13 - bounding-box invariant: every chunk built from a fragment group and
\* every chunk obtained by merging such chunks has as bbox the coordinate-wise
\* min / max over the bboxes of its own elements that carry one, and (0,0,0,0)
\* only when none of them does.
C13_BoundingBox ==
    /\ C13_BuiltChunks
    /\ \A n \in 1..Len(merged_chunks) :
           merged_chunks[n].bbox = C13_ElementsBBox(merged_chunks[n].elements)

\* the label of the element came from the spatial fallback alone
C14_SpatialFallback(element) ==
    /\ ~is_totals_element(element)
    /\ matching_types(content_patterns, lower(Get(element, "text", ""))) = << >>

\* C14 - confidence reflects derivation: a table-derived chunk has confidence
\* 0.9, a fragment chunk with a content-matched element 0.8, and a fragment
\* chunk whose elements were all labelled by the spatial fallback at most 0.5.
C14_ConfidenceReflectsDerivation ==
    pc \in {"chunking", "returned"} =>
        \A n \in 1..Len(chunks) :
            IF chunks[n].elements = << >> THEN chunks[n].confidence = 90
            ELSE IF \A m \in 1..Len(chunks[n].elements) :
                        C14_SpatialFallback(chunks[n].elements[m])
                 THEN chunks[n].confidence <= 50
                 ELSE chunks[n].confidence = 80

\* C15 - merged chunk construction: _merge_two_chunks returns a new chunk with
\* the two contents newline-joined, the coordinate-wise union of the bboxes,
\* the larger confidence, the elements of the first followed by those of the
\* second and the page number of the first, and leaves its arguments unchanged.
C15_MergedChunkConstruction ==
    [][(pc = "merge_idle" /\ pc' = "two_merged") =>
          LET c1 == chunks[1]
              c2 == chunks[2]
              merged == merged_chunks'[1]
          IN  /\ Len(merged_chunks') = 1
              /\ merged.content = c1.content \o "\n" \o c2.content
              /\ merged.bbox[1] = (IF c1.bbox[1] <= c2.bbox[1] THEN c1.bbox[1] ELSE c2.bbox[1])
              /\ merged.bbox[2] = (IF c1.bbox[2] <= c2.bbox[2] THEN c1.bbox[2] ELSE c2.bbox[2])
              /\ merged.bbox[3] = (IF c1.bbox[3] >= c2.bbox[3] THEN c1.bbox[3] ELSE c2.bbox[3])
              /\ merged.bbox[4] = (IF c1.bbox[4] >= c2.bbox[4] THEN c1.bbox[4] ELSE c2.bbox[4])
              /\ merged.confidence =
                    (IF c1.confidence >= c2.confidence THEN c1.confidence ELSE c2.confidence)
              /\ merged.elements = c1.elements \o c2.elements
              /\ merged.page_number = c1.page_number
              /\ chunks' = chunks]_vars

\* two chunks of different pages, boxes and confidences, with elements, merged
C15_Witness ==
    /\ pc = "two_merged"
    /\ chunks[1].page_number = 2 /\ chunks[2].page_number = 1
    /\ chunks[1].confidence < chunks[2].confidence
    /\ chunks[1].bbox = BOX_A /\ chunks[2].bbox = BOX_B
    /\ chunks[1].elements # << >> /\ chunks[2].elements # << >>
    /\ merged_chunks[1].bbox = <<50, 100, 500, 300>>
    /\ merged_chunks[1].page_number = 2

\* C16 - proximity merge predicate: a pair of adjacent chunks other than
\* (line_items_header, table_data) is merged exactly when the two are on the
\* same page and the first's bottom edge and the second's top edge are less
\* than 30 apart; a distance of exactly 30, or different pages, never merges.
C16_ProximityPredicate ==
    [][(/\ pc = "merging" /\ i' # i
        /\ i + 1 < Len(chunks)
        /\ ~(chunks[i + 1].chunk_type = "line_items_header"
             /\ chunks[i + 2].chunk_type = "table_data")) =>
          LET c1 == chunks[i + 1]
              c2 == chunks[i + 2]
              distance == IF c1.bbox[4] >= c2.bbox[2] THEN c1.bbox[4] - c2.bbox[2]
                          ELSE c2.bbox[2] - c1.bbox[4]
              merges == i' = i + 2 /\ Len(merged_chunks') = Len(merged_chunks) + 1
              keeps == i' = i + 1 /\ merged_chunks' = Append(merged_chunks, c1)
          IN  IF c1.page_number = c2.page_number /\ distance < 30 THEN merges ELSE keeps]_vars

\* two chunks of one page exactly 30 apart, returned unmerged
C16_Witness ==
    /\ pc = "merge_returned"
    /\ Len(chunks) = 2
    /\ chunks[1].page_number = chunks[2].page_number
    /\ chunks[2].bbox[2] - chunks[1].bbox[4] = 30
    /\ merged_chunks = chunks

(***************************************************************************)
(* reconstruct_table_structure called with any position-name list.         *)
(***************************************************************************)
R_HEADER4 == <<"Description", "Qty", "Unit Price", "Total">>
R_CONSULTING == <<"Consulting", "2", "80,00 " \o EURO, "160,00 " \o EURO>>
R_GESAMT == <<"Gesamtbetrag", "", "", "160,00 " \o EURO>>
\* a row shorter than the header, and one longer
R_SHORT == <<"Hosting", "12">>
R_LONG == <<"Support", "1", "50,00 " \o EURO, "50,00 " \o EURO, "19%">>

TableRowUniverse == {R_HEADER4, R_CONSULTING, R_GESAMT, R_SHORT, R_LONG}

\* position names: a plain one, one that contains "steuer", one that
\* contains "summe"
PN_CONSULTING == [name |-> "Consulting", source |-> "table_description_column"]
PN_STEUER == [name |-> "Steuerberatung 2024", source |-> "content_analysis",
              bbox |-> <<50, 100, 200, 112>>, page |-> 1]
PN_SUMME == [name |-> "Zwischensumme", source |-> "table_description_column"]

PositionNameUniverse == {PN_CONSULTING, PN_STEUER, PN_SUMME}

\* rows of the table and entries of the position-name list, together
MaxTableInput == 4

InitTable ==
    /\ pc = "norm_idle" /\ err = "none"
    /\ extraction_result = EMPTY_DICT
    /\ pages = << >> /\ chunks = << >>
    /\ table_rows \in SeqsUpTo(TableRowUniverse, MaxTableInput)
    /\ position_names \in SeqsUpTo(PositionNameUniverse, MaxTableInput - Len(table_rows))
    /\ table_structure = None
    /\ ChunkerIdle /\ MergerIdle /\ GrouperIdle /\ SummaryIdle /\ ParserIdle

NextTable == reconstruct_table_structure

SpecTable == InitTable /\ [][NextTable]_vars

\* the summary keywords the spec names
C17_KEYWORDS == {"summe", "steuer", "tax", "total", "gesamt", "zwischensumme", "umsatzsteuer"}

\* the space-joined lowercase text of the row contains a summary keyword
C17_IsSummaryRow(row) ==
    LET row_text == lower(join(" ", row))
    IN  \E keyword \in C17_KEYWORDS : Contains(row_text, keyword)

\* C17 - item/summary split: the first row is the headers; every later row is
\* in 'summary' if its space-joined lowercase text contains a summary keyword
\* and in 'items' (as raw_row) otherwise, each list in input order, so that
\* the two lists together have len(table_rows) - 1 entries.
C17_ItemSummarySplit ==
    (pc = "table_reconstructed" /\ table_rows # << >>) =>
        LET later == Tail(table_rows)
            raw_rows == [n \in 1..Len(table_structure.items) |->
                            table_structure.items[n].raw_row]
        IN  /\ table_structure.headers = Head(table_rows)
            /\ table_structure.summary = SelectSeq(later, C17_IsSummaryRow)
            /\ raw_rows = SelectSeq(later, LAMBDA row : ~C17_IsSummaryRow(row))
            /\ Len(table_structure.items) + Len(table_structure.summary)
                   = Len(table_rows) - 1

\* the table of the spec's scenario: one item, the Consulting row, and one
\* summary row, the Gesamtbetrag row
C17_Witness ==
    /\ pc = "table_reconstructed"
    /\ table_rows = <<R_HEADER4, R_CONSULTING, R_GESAMT>>
    /\ Len(table_structure.items) = 1
    /\ table_structure.items[1].raw_row = R_CONSULTING
    /\ table_structure.summary = <<R_GESAMT>>

\* the cells of the row are pairwise different
C18_Distinct(row) == \A a, b \in 1..Len(row) : a # b => row[a] # row[b]

\* C18 - cell mapping: with distinct header names, an item's mapping has
\* exactly the keys H[j] for j < min(len(H), len(R)), each mapped to R[j].
C18_CellMapping ==
    (pc = "table_reconstructed" /\ table_rows # << >> /\ C18_Distinct(Head(table_rows))) =>
        \A n \in 1..Len(table_structure.items) :
            LET H == Head(table_rows)
                R == table_structure.items[n].raw_row
                shared == IF Len(H) <= Len(R) THEN Len(H) ELSE Len(R)
                cells == table_structure.items[n].table_data
            IN  /\ DOMAIN cells = {H[j] : j \in 1..shared}
                /\ \A j \in 1..shared : cells[H[j]] = R[j]

\* a header of four names with an item of two cells and an item of five
C18_Witness ==
    /\ pc = "table_reconstructed"
    /\ table_rows = <<R_HEADER4, R_SHORT, R_LONG>>
    /\ DOMAIN table_structure.items[1].table_data = {"Description", "Qty"}
    /\ DOMAIN table_structure.items[2].table_data
           = {"Description", "Qty", "Unit Price", "Total"}
    /\ table_structure.items[2].table_data["Total"] = "50,00 " \o EURO

\* the names of the list whose lowercase text contains no summary keyword
C19_SurvivingNames ==
    LET names == [n \in 1..Len(position_names) |-> position_names[n].name]
    IN  SelectSeq(names, LAMBDA name :
                     ~\E keyword \in C17_KEYWORDS : Contains(lower(name), keyword))

\* C19 - positional name matching: the i-th item row has as position_name the
\* i-th of the position names that contain no summary keyword, and None when
\* there are i or fewer of them.
C19_PositionalNameMatching ==
    (pc = "table_reconstructed" /\ table_rows # << >>) =>
        \A n \in 1..Len(table_structure.items) :
            table_structure.items[n].position_name =
                (IF n <= Len(C19_SurvivingNames) THEN C19_SurvivingNames[n] ELSE NoneStr)

(***************************************************************************)
(* SpatialInvoiceChunker.get_chunk_summary                                 *)
(***************************************************************************)
\* sum(1 for c in chunks if ...)
count_chunks(cs, test(_)) == Cardinality({n \in 1..Len(cs) : test(cs[n])})

\* lines 487-492: chunk_types after the loop
chunk_type_counts(cs) ==
    [t \in {cs[n].chunk_type : n \in 1..Len(cs)} |->
        count_chunks(cs, LAMBDA c : c.chunk_type = t)]

\* lines 488-493: total_content_length after the loop
RECURSIVE total_content_length(_)
total_content_length(cs) ==
    IF cs = << >> THEN 0 ELSE Len(Head(cs).content) + total_content_length(Tail(cs))

\* lines 499-503 with a medium bucket that starts above 0.5
chunks_by_confidence_above_half(cs) ==
    [high |-> count_chunks(cs, LAMBDA c : c.confidence >= 80),
     medium |-> count_chunks(cs, LAMBDA c : 50 < c.confidence /\ c.confidence < 80),
     low |-> count_chunks(cs, LAMBDA c : c.confidence < 50)]

\* lines 499-503
chunks_by_confidence(cs) ==
    [high |-> count_chunks(cs, LAMBDA c : c.confidence >= 80),
     medium |-> count_chunks(cs, LAMBDA c : 50 <= c.confidence /\ c.confidence < 80),
     low |-> count_chunks(cs, LAMBDA c : c.confidence < 50)]

\* lines 495-504; average_chunk_size in hundredths, rounded down
get_chunk_summary_result(cs) ==
    [total_chunks |-> Len(cs),
     chunk_types |-> chunk_type_counts(cs),
     average_chunk_size |-> IF cs # << >> THEN (total_content_length(cs) * 100) \div Len(cs)
                            ELSE 0,
     chunks_by_confidence |-> chunks_by_confidence(cs)]

\* chunks with confidences on and next to the bucket limits, and a table
\* chunk with the accuracy of its table as confidence
SummaryChunkUniverse ==
    {InvoiceChunk("Page 1 of 1", "footer", <<E_FOOTER>>, <<50, 10, 200, 20>>, 1, 49),
     InvoiceChunk("Bill To: ACME", "addresses", <<E_BILLTO>>, <<50, 600, 180, 612>>, 1, 50),
     InvoiceChunk("Description", "line_items", <<E_DESC>>, ZERO_BBOX, 1, 79),
     InvoiceChunk("Total 5", "totals", << >>, BOX_A, 2, 80),
     process_table(T_LATTICE)}

\* chunks in one input of get_chunk_summary
MaxSummaryChunks == 3

InitSummary ==
    /\ pc = "summary_idle" /\ err = "none"
    /\ extraction_result = EMPTY_DICT
    /\ chunks \in SeqsUpTo(SummaryChunkUniverse, MaxSummaryChunks)
    /\ pages = << >>
    /\ ChunkerIdle /\ MergerIdle /\ GrouperIdle /\ SummaryIdle /\ ParserIdle /\ NormalizerIdle

get_chunk_summary ==
    /\ pc = "summary_idle"
    /\ summary' = get_chunk_summary_result(chunks)
    /\ pc' = "summarized"
    /\ UNCHANGED <<err, extraction_result, pages, tables, page_num, table_num, groups, chunks, i,
                   merged_chunks, table_rows, position_names, table_structure, row_groups,
                   regrouped, cell_details, cell_parsed>>

NextSummary == get_chunk_summary

SpecSummary == InitSummary /\ [][NextSummary]_vars

\* the sum of the values of the dict
RECURSIVE C20_Sum(_)
C20_Sum(counts) ==
    IF DOMAIN counts = {} THEN 0
    ELSE LET k == CHOOSE key \in DOMAIN counts : TRUE
         IN  counts[k] + C20_Sum([key \in DOMAIN counts \ {k} |-> counts[key]])

\* the indices of the chunks whose confidence (in hundredths) is in lo..hi-1
C20_Bucket(lo, hi) ==
    {n \in 1..Len(chunks) : lo <= chunks[n].confidence /\ chunks[n].confidence < hi}

\* C20 - summary view: total_chunks is the number of chunks, the per-type
\* counts add up to it, every chunk is counted in exactly one of the buckets
\* high (>= 0.8), medium (0.5 to below 0.8) and low (< 0.5), and the average
\* chunk size of the empty list is 0.
C20_SummaryView ==
    pc = "summarized" =>
        LET buckets == summary.chunks_by_confidence
            top == 1 + Max({0} \cup {chunks[n].confidence : n \in 1..Len(chunks)})
        IN  /\ summary.total_chunks = Len(chunks)
            /\ \A t \in DOMAIN summary.chunk_types :
                   summary.chunk_types[t]
                       = Cardinality({n \in 1..Len(chunks) : chunks[n].chunk_type = t})
            /\ C20_Sum(summary.chunk_types) = Len(chunks)
            /\ buckets.high = Cardinality(C20_Bucket(80, top))
            /\ buckets.medium = Cardinality(C20_Bucket(50, 80))
            /\ buckets.low = Cardinality(C20_Bucket(0, 50))
            /\ buckets.high + buckets.medium + buckets.low = Len(chunks)
            /\ chunks = << >> => summary.average_chunk_size = 0

\* chunks of confidence 0.49, 0.5 and 0.8: one in each bucket
C20_Witness ==
    /\ pc = "summarized"
    /\ {chunks[n].confidence : n \in 1..Len(chunks)} = {49, 50, 80}
    /\ summary.chunks_by_confidence = [high |-> 1, medium |-> 1, low |-> 1]
    /\ summary.total_chunks = 3

(***************************************************************************)
(* The pass of _merge_related_chunks                                       *)
(***************************************************************************)
\* C21: _merge_related_chunks is one greedy forward pass.  Every iteration
\* consumes a block of one or two consecutive input chunks and appends one
\* chunk for it: the block has size two exactly when the current chunk has a
\* successor and the merge predicate holds for the pair, and then the merge
\* of the pair is appended; otherwise the current chunk is appended
\* unchanged.  What was appended before is never touched again (a merged
\* chunk is not merged with its successor), the input is not changed, and
\* the pass returns only when every input chunk has been consumed.
C21_SingleGreedyPass ==
    [][/\ (pc = "merging" /\ pc' = "merging") =>
            LET pair == i + 1 < Len(chunks) /\ should_merge_chunks(chunks[i + 1], chunks[i + 2])
            IN  /\ i < Len(chunks)
                /\ chunks' = chunks
                /\ Len(merged_chunks') = Len(merged_chunks) + 1
                /\ SubSeq(merged_chunks', 1, Len(merged_chunks)) = merged_chunks
                /\ pair => /\ i' = i + 2
                           /\ merged_chunks'[Len(merged_chunks')]
                                = merge_two_chunks(chunks[i + 1], chunks[i + 2])
                /\ ~pair => /\ i' = i + 1
                            /\ merged_chunks'[Len(merged_chunks')] = chunks[i + 1]
       /\ (pc = "merging" /\ pc' = "merge_returned") =>
            /\ i = Len(chunks)
            /\ merged_chunks' = merged_chunks
            /\ chunks' = chunks]_vars

\* a returned pass that merged the first two of three chunks and left the
\* third alone although the merged chunk and the third satisfy the predicate
C21_Witness ==
    /\ pc = "merge_returned"
    /\ Len(chunks) = 3
    /\ Len(merged_chunks) = 2
    /\ merged_chunks[1] = merge_two_chunks(chunks[1], chunks[2])
    /\ merged_chunks[2] = chunks[3]
    /\ should_merge_chunks(merged_chunks[1], chunks[3])

\* C22: for a pair other than (line_items_header, table_data), the chunk
\* _merge_two_chunks returns has the type of the chunk with the higher
\* confidence, and the type of the second chunk when the confidences are
\* equal.
C22_MergedChunkType ==
    pc = "two_merged" =>
        LET c1 == chunks[1]
            c2 == chunks[2]
            m  == merged_chunks[1]
        IN  ~(c1.chunk_type = "line_items_header" /\ c2.chunk_type = "table_data") =>
                /\ c1.confidence > c2.confidence => m.chunk_type = c1.chunk_type
                /\ c2.confidence > c1.confidence => m.chunk_type = c2.chunk_type
                /\ c1.confidence = c2.confidence => m.chunk_type = c2.chunk_type

\* a merged pair of equal confidence and different types, the first of them
\* a totals chunk
C22_Witness ==
    /\ pc = "two_merged"
    /\ chunks[1].confidence = chunks[2].confidence
    /\ chunks[1].chunk_type = "totals"
    /\ chunks[2].chunk_type = "table_data"
    /\ merged_chunks[1].chunk_type = "table_data"

(***************************************************************************)
(* _adaptive_spatial_grouping called on the fragments of one page          *)
(***************************************************************************)
\* Fragments that reach every rule of the classifier.  Coordinates grow
\* towards the top of the page.
\* header and line_items patterns, at the bottom and in the middle of a page
K_INVOICE_LOW == [text |-> "Invoice 7 Description", bbox |-> <<50, 100, 300, 112>>]
K_INVOICE_MID == [text |-> "Invoice 7 Description", bbox |-> <<50, 600, 300, 612>>,
                  font_info |-> [name |-> "Helvetica", size |-> 14]]
\* line_items (amount) and totals (amount due) patterns
K_AMOUNT_DUE == [text |-> "Amount Due", bbox |-> <<50, 100, 300, 112>>]
\* a totals pattern only, and none of the keywords of line 108
K_DISCOUNT == [text |-> "Discount 5", bbox |-> <<50, 800, 300, 812>>,
               font_info |-> [name |-> "Helvetica", size |-> 14]]
\* addresses and line_items patterns
K_BILLTO_PRODUCT == [text |-> "Bill To Product", bbox |-> <<50, 600, 300, 612>>]
\* no content pattern: the top of the page, with and without a large font
K_WEST_LARGE == [text |-> "5 West", bbox |-> <<50, 750, 300, 762>>,
                 font_info |-> [name |-> "Helvetica", size |-> 14]]
K_WEST == [text |-> "5 West", bbox |-> <<50, 750, 300, 762>>]
K_WEST_NO_SIZE == [text |-> "5 West", bbox |-> <<50, 750, 300, 762>>,
                   font_info |-> [name |-> "Helvetica"]]
\* a dollar amount at the bottom and in the middle
K_MONEY_LOW == [text |-> "$1,200.50", bbox |-> <<50, 100, 300, 112>>]
K_MONEY_MID == [text |-> "$1,200.50", bbox |-> <<50, 300, 300, 312>>]
\* a price and a street in the band where lines 158 and 162 both apply
K_PRICE_WEST == [text |-> "12.50 West", bbox |-> <<50, 600, 300, 612>>]
\* nothing but the position
K_NOTE_TOP == [text |-> "Thanks", bbox |-> <<50, 450, 300, 462>>]
K_NOTE_400 == [text |-> "Thanks", bbox |-> <<50, 400, 300, 412>>]

ClassifyUniverse ==
    {K_INVOICE_LOW, K_INVOICE_MID, K_AMOUNT_DUE, K_DISCOUNT, K_BILLTO_PRODUCT,
     K_WEST_LARGE, K_WEST, K_WEST_NO_SIZE, K_MONEY_LOW, K_MONEY_MID, K_PRICE_WEST,
     K_NOTE_TOP, K_NOTE_400, E_GESAMT, E_TOTAL_QTY, E_EMPTY}

\* fragments on the page
MaxClassified == 2

InitClassify ==
    /\ pc = "classify_idle" /\ err = "none"
    /\ extraction_result = EMPTY_DICT
    /\ \E els \in SeqsUpTo(ClassifyUniverse, MaxClassified) : pages = <<[elements |-> els]>>
    /\ chunks = << >>
    /\ ChunkerIdle /\ MergerIdle /\ GrouperIdle /\ SummaryIdle /\ ParserIdle /\ NormalizerIdle

\* SpatialInvoiceChunker._adaptive_spatial_grouping(elements)
AdaptiveSpatialGrouping ==
    /\ pc = "classify_idle"
    /\ groups' = adaptive_spatial_grouping(pages[1].elements)
    /\ pc' = "grouped"
    /\ UNCHANGED <<err, extraction_result, pages, tables, page_num, table_num, chunks, i,
                   merged_chunks, table_rows, position_names, table_structure, row_groups,
                   regrouped, summary, cell_details, cell_parsed>>

NextClassify == AdaptiveSpatialGrouping

SpecClassify == InitClassify /\ [][NextClassify]_vars

\* the priority order of the categories
C23_ORDER == <<"header", "addresses", "line_items", "totals">>

\* some pattern listed under the category cat matches text
C23_Matches(cat, text) ==
    \E e \in 1..Len(content_patterns) :
        /\ content_patterns[e][1] = cat
        /\ \E n \in 1..Len(content_patterns[e][2]) :
               re_search_ignorecase(content_patterns[e][2][n], text)

\* the positions in C23_ORDER of the categories that match the text of element
C23_Hits(element) ==
    {n \in 1..Len(C23_ORDER) : C23_Matches(C23_ORDER[n], lower(Get(element, "text", "")))}

\* C23_Hits of every fragment of the universe, computed once
C23_HitsTable == {<<e, C23_Hits(e)>> : e \in ClassifyUniverse}

C23_HitsOf(element) == (CHOOSE p \in C23_HitsTable : p[1] = element)[2]

\* C23 - ordered first-match-wins classification: a fragment of the page that
\* the totals pre-filter did not capture and whose text matches a pattern of
\* some category is put into the group of the first matching category in the
\* order header, addresses, line_items, totals, and into no other group,
\* whatever its position and font.
C23_FirstMatchWins ==
    pc = "grouped" =>
        LET elements == pages[1].elements
        IN  \A n \in 1..Len(elements) :
                LET hits == C23_HitsOf(elements[n])
                IN  (~is_totals_element(elements[n]) /\ hits # {}) =>
                        C4_GroupsHolding(elements[n]) = {C23_ORDER[Min(hits)]}

\* "Amount Due" matches line_items (amount) and totals (amount due) and is in
\* line_items; "Invoice 7 Description" at the bottom of the page is in header
C23_Witness ==
    /\ pc = "grouped"
    /\ groups["line_items"] = <<K_AMOUNT_DUE>>
    /\ groups["header"] = <<K_INVOICE_LOW>>
    /\ C23_Hits(K_AMOUNT_DUE) = {3, 4}
    /\ C23_Hits(K_INVOICE_LOW) = {1, 3}

\* C24 - spatial fallback order: a fragment of the page that the pre-filter
\* did not capture and that matches no content pattern is labelled by the
\* first rule that applies: (a) y > 700 and font size > 12: header; (b) y < 200
\* and a currency amount: totals; (c) 200 < y < 700 and a numeric/quantity
\* pattern: line_items; (d) y > 500 and a street pattern: addresses; (e) header
\* if y > 400, else footer.  A missing font size counts as 10, and every
\* fragment is in exactly one of the five groups.
C24_SpatialFallbackOrder ==
    pc = "grouped" =>
        LET elements == pages[1].elements
        IN  \A n \in 1..Len(elements) :
                LET element == elements[n]
                    text == lower(Get(element, "text", ""))
                    y == IF "bbox" \in DOMAIN element THEN element.bbox[2] ELSE 0
                    size == IF "font_info" \in DOMAIN element
                               /\ "size" \in DOMAIN element.font_info
                            THEN element.font_info.size ELSE 10
                    a == y > 700 /\ size > 12
                    b == y < 200 /\ re_search(MONEY_DOLLAR, text)
                    c == 200 < y /\ y < 700 /\ re_search(QUANTITY_PRICE, text)
                    d == y > 500 /\ re_search_ignorecase(STREET, text)
                    label == C4_GroupsHolding(element)
                IN  /\ Cardinality(label) = 1
                    /\ label \subseteq {"header", "addresses", "line_items", "totals", "footer"}
                    /\ (~is_totals_element(element) /\ C23_HitsOf(element) = {}) =>
                         /\ a => label = {"header"}
                         /\ (~a /\ b) => label = {"totals"}
                         /\ (~a /\ ~b /\ c) => label = {"line_items"}
                         /\ (~a /\ ~b /\ ~c /\ d) => label = {"addresses"}
                         /\ (~a /\ ~b /\ ~c /\ ~d /\ y > 400) => label = {"header"}
                         /\ (~a /\ ~b /\ ~c /\ ~d /\ ~(y > 400)) => label = {"footer"}

\* "12.50 West" at y = 600 satisfies (c) and (d) and is in line_items; "5 West"
\* at y = 750 without a font size fails (a) and is in addresses
C24_Witness ==
    /\ pc = "grouped"
    /\ groups["line_items"] = <<K_PRICE_WEST>>
    /\ groups["addresses"] = <<K_WEST_NO_SIZE>>

\* how often e occurs in seq
C25_Count(seq, e) == Cardinality({n \in 1..Len(seq) : seq[n] = e})

\* g can be obtained from s by leaving elements out
RECURSIVE C25_IsSubsequence(_, _)
C25_IsSubsequence(g, s) ==
    IF g = << >> THEN TRUE
    ELSE IF s = << >> THEN FALSE
    ELSE IF Head(g) = Head(s) THEN C25_IsSubsequence(Tail(g), Tail(s))
    ELSE C25_IsSubsequence(g, Tail(s))

\* C25 - group partition: _adaptive_spatial_grouping returns the five groups;
\* every element of the page is in exactly one of them as often as it is on
\* the page, so that the group sizes sum to the number of elements; an element
\* the pre-filter routed to totals is in no other group; and every group lists
\* its elements in the order of the top-edge-descending sort.
C25_GroupPartition ==
    pc = "grouped" =>
        LET elements == pages[1].elements
            labels == {"header", "addresses", "line_items", "totals", "footer"}
        IN  /\ DOMAIN groups = labels
            /\ Len(groups["header"]) + Len(groups["addresses"]) + Len(groups["line_items"])
                 + Len(groups["totals"]) + Len(groups["footer"]) = Len(elements)
            /\ \A n \in 1..Len(elements) :
                   /\ Cardinality(C4_GroupsHolding(elements[n])) = 1
                   /\ \A t \in C4_GroupsHolding(elements[n]) :
                          C25_Count(groups[t], elements[n]) = C25_Count(elements, elements[n])
                   /\ is_totals_element(elements[n]) =>
                          C4_GroupsHolding(elements[n]) = {"totals"}
            /\ \A t \in labels : C25_IsSubsequence(groups[t], sorted_desc(elements))

\* C26 - greedy region grouping: for a non-empty element list,
\* _group_by_spatial_regions returns non-empty groups that, one after the
\* other, are the elements sorted by top edge; two neighbours of the sorted
\* list are in one group exactly when their top edges differ by at most 20,
\* so a group may span more than 20 and a group of one element is kept.
C26_GreedyRegionGrouping ==
    pc = "regions_grouped" =>
        LET elements == pages[1].elements
            flat == Flatten(row_groups)
            \* the index in flat of the first element of group g, minus one
            start == [g \in 1..Len(row_groups) |->
                         Len(Flatten(SubSeq(row_groups, 1, g - 1)))]
        IN  /\ elements = << >> => row_groups = << >>
            /\ elements # << >> => row_groups # << >>
            /\ \A g \in 1..Len(row_groups) : row_groups[g] # << >>
            /\ Len(flat) = Len(elements)
            /\ \A e \in {elements[n] : n \in 1..Len(elements)} :
                   C25_Count(flat, e) = C25_Count(elements, e)
            /\ \A n \in 1..Len(flat) - 1 : flat[n].bbox[2] <= flat[n + 1].bbox[2]
            /\ \A g \in 1..Len(row_groups) :
                   /\ \A n \in 1..Len(row_groups[g]) - 1 :
                          row_groups[g][n + 1].bbox[2] - row_groups[g][n].bbox[2] <= Y_THRESHOLD
                   /\ g > 1 =>
                          row_groups[g][1].bbox[2] - flat[start[g]].bbox[2] > Y_THRESHOLD

\* a group of one element, 25 above a group of two
C26_Witness ==
    /\ pc = "regions_grouped"
    /\ row_groups = << <<P_DESC>>, <<P_TAX, P_SUM>> >>

\* C27 - table-row detection output: the candidates of the page are put into
\* buckets, every candidate into exactly one, each bucket holding elements
\* whose top edges are within 5 of the bucket's reference coordinate; the
\* rows returned are the buckets of at least 2 elements, each row at least 2
\* cells, the stripped texts of its elements from left to right.
C27_TableRowDetection ==
    pc = "rows_extracted" =>
        LET candidates == SelectSeq(pages[1].elements, is_table_candidate)
            rows_dict == rows_dict_of(candidates)
            buckets == [b \in 1..Len(rows_dict) |-> rows_dict[b][2]]
        IN  /\ Len(Flatten(buckets)) = Len(candidates)
            /\ \A e \in {candidates[n] : n \in 1..Len(candidates)} :
                   C25_Count(Flatten(buckets), e) = C25_Count(candidates, e)
            /\ \A b \in 1..Len(rows_dict) :
                   \A n \in 1..Len(buckets[b]) :
                       Abs(buckets[b][n].bbox[2] - rows_dict[b][1]) <= ROW_TOLERANCE
            /\ Len(row_groups) = Cardinality({b \in 1..Len(buckets) : Len(buckets[b]) >= 2})
            /\ Len(table_rows) = Len(row_groups)
            /\ \A r \in 1..Len(row_groups) :
                   /\ Len(table_rows[r]) >= 2
                   /\ Len(table_rows[r]) = Len(row_groups[r])
                   /\ \E b \in 1..Len(buckets) :
                          /\ Len(buckets[b]) = Len(row_groups[r])
                          /\ \A e \in {buckets[b][n] : n \in 1..Len(buckets[b])} :
                                 C25_Count(row_groups[r], e) = C25_Count(buckets[b], e)
                   /\ \A n \in 1..Len(row_groups[r]) :
                          table_rows[r][n] = strip(row_groups[r][n].text)
                   /\ \A n \in 1..Len(row_groups[r]) - 1 :
                          row_groups[r][n].bbox[1] <= row_groups[r][n + 1].bbox[1]

\* the price given before the description: one row, the description first,
\* and the lone cell 35 below left out
C27_Witness ==
    /\ pc = "rows_extracted"
    /\ pages[1].elements = <<P_PRICE, P_DESC, P_SUM>>
    /\ row_groups = << <<P_DESC, P_PRICE>> >>
    /\ table_rows = << <<"Consulting", "80,00 " \o EURO>> >>

(***************************************************************************)
(* _parse_line_item_details called on one details cell                     *)
(***************************************************************************)
\* the sub-lines a details cell is made of: two quantities (one padded), two
\* units, three lines with a currency amount as line 257 spells it (one of
\* them holding a percentage as well), a tax rate, a line no rule matches and
\* a blank one
SubLineUniverse ==
    {"2", " 3,5 ", "Std.", "pcs", "80,00 " \o MOJIBAKE_EURO, "160,00 " \o MOJIBAKE_EURO,
     "7% 5 " \o MOJIBAKE_EURO, "19%", "n/a", " "}

\* sub-lines in the cell
MaxSubLines == 3

InitParse ==
    /\ pc = "parse_idle" /\ err = "none"
    /\ extraction_result = EMPTY_DICT
    /\ pages = << >> /\ chunks = << >>
    /\ \E ls \in SeqsUpTo(SubLineUniverse, MaxSubLines) : cell_details = join("\n", ls)
    /\ cell_parsed = EMPTY_DICT
    /\ ChunkerIdle /\ MergerIdle /\ GrouperIdle /\ SummaryIdle /\ NormalizerIdle

\* SpatialInvoiceChunker._parse_line_item_details(details_text)
ParseLineItemDetails ==
    /\ pc = "parse_idle"
    /\ cell_parsed' = parse_line_item_details(cell_details)
    /\ pc' = "details_parsed"
    /\ UNCHANGED <<err, extraction_result, pages, tables, page_num, table_num, groups, chunks,
                   i, merged_chunks, table_rows, position_names, table_structure, row_groups,
                   regrouped, summary, cell_details>>

NextParse == ParseLineItemDetails

SpecParse == InitParse /\ [][NextParse]_vars

\* the non-empty sub-lines of the cell, stripped
C28_Lines ==
    SelectSeq(Map(split_lines(cell_details), strip), LAMBDA line : line # "")

\* the first rule, in the order quantity, unit, currency amount, tax rate,
\* that matches the sub-line
C28_Rule(line) ==
    IF re_match_whole(QUANTITY, line) THEN "quantity"
    ELSE IF re_match_whole(UNIT, lower(line)) THEN "unit"
    ELSE IF re_search(PRICE, line) THEN "currency"
    ELSE IF re_search(TAX_RATE, line) THEN "tax_rate"
    ELSE "none"

\* the sub-lines of the cell the rule applies to, in order
C28_Matching(rule) == SelectSeq(C28_Lines, LAMBDA line : C28_Rule(line) = rule)

\* C28 - first-match-wins sub-field parsing: only the first matching rule is
\* applied to a sub-line; quantity, unit and tax_rate each hold the first
\* sub-line their rule applied to, unit_price the first currency sub-line and
\* line_total the second; a field with no sub-line is absent, and nothing
\* else is in the result.
C28_FirstMatchPerField ==
    pc = "details_parsed" =>
        /\ DOMAIN cell_parsed \subseteq {"quantity", "unit", "unit_price", "tax_rate", "line_total"}
        /\ \A field \in {"quantity", "unit", "tax_rate"} :
               IF C28_Matching(field) = << >> THEN field \notin DOMAIN cell_parsed
               ELSE field \in DOMAIN cell_parsed /\ cell_parsed[field] = C28_Matching(field)[1]
        /\ IF C28_Matching("currency") = << >> THEN "unit_price" \notin DOMAIN cell_parsed
           ELSE "unit_price" \in DOMAIN cell_parsed
                /\ cell_parsed["unit_price"] = C28_Matching("currency")[1]
        /\ IF Len(C28_Matching("currency")) < 2 THEN "line_total" \notin DOMAIN cell_parsed
           ELSE "line_total" \in DOMAIN cell_parsed
                /\ cell_parsed["line_total"] = C28_Matching("currency")[2]

(***************************************************************************)
(* extract_position_names called with table rows only, or with the         *)
(* fragments of one page only                                              *)
(***************************************************************************)
\* a header whose first and second cell both hold a description keyword, and
\* one without a keyword
R_POSITION == <<"Position", "Description">>
R_NO_KEYWORD == <<"Qty", "Price">>
\* data rows: a row number before the description, a price and a tax rate,
\* and a single blank cell
R_NUMBERED == <<"1", "Consulting">>
R_AMOUNTS == <<"12,50 " \o EURO, "19%">>
R_BLANK == <<" ">>

NameRowUniverse == {R_HEADER, R_POSITION, R_NO_KEYWORD, R_WEB, R_NUMBERED, R_AMOUNTS, R_BLANK}

\* fragments: a name, a word, a quantity, a price, a text with a comma and no
\* digit, and an all-uppercase heading above them
F_NAME == [text |-> "Web Design", bbox |-> <<50, 100, 200, 112>>, page |-> 1]
F_NOTE == [text |-> "Note", bbox |-> <<50, 110, 200, 122>>, page |-> 1]
F_QTY == [text |-> "2", bbox |-> <<300, 130, 310, 142>>, page |-> 1]
F_PRICE == [text |-> "12,50 " \o EURO, bbox |-> <<400, 140, 460, 152>>, page |-> 1]
F_CITY == [text |-> "Berlin, Germany", bbox |-> <<50, 120, 200, 132>>, page |-> 1]
F_HEADING == [text |-> "WEB DESIGN", bbox |-> <<50, 90, 200, 102>>, page |-> 1]

NameElementUniverse == {F_NAME, F_NOTE, F_QTY, F_PRICE, F_CITY, F_HEADING}

\* table rows, or fragments of the page
MaxNameInput == 5

InitNames ==
    /\ pc = "norm_idle" /\ err = "none"
    /\ extraction_result = EMPTY_DICT
    /\ \/ /\ table_rows \in SeqsUpTo(NameRowUniverse, MaxNameInput)
          /\ pages = << >>
       \/ /\ table_rows = << >>
          /\ \E els \in SeqsUpTo(NameElementUniverse, MaxNameInput) :
                pages = <<[elements |-> els]>>
    /\ chunks = << >>
    /\ ChunkerIdle /\ MergerIdle /\ GrouperIdle /\ SummaryIdle /\ ParserIdle
    /\ NormalizerResultsIdle

NextNames == extract_position_names

SpecNames == InitNames /\ [][NextNames]_vars

\* the text is a number: digits, with decimal or thousands separators
C29_BareNumber(v) ==
    /\ \E k \in 1..Len(v) : Chr(v, k) \in DIGITS
    /\ \A k \in 1..Len(v) : Chr(v, k) \in DIGITS \cup {",", "."}

\* the description keywords
C29_KEYWORDS == {"beschreibung", "description", "artikel", "item", "position"}

\* the columns of the header row whose cell holds a description keyword
C29_Columns ==
    IF table_rows = << >> THEN {}
    ELSE {n \in 1..Len(table_rows[1]) :
             \E kw \in C29_KEYWORDS : Contains(lower(table_rows[1][n]), kw)}

\* the values of the first such column that are to be emitted
C29_Expected ==
    IF C29_Columns = {} THEN {}
    ELSE LET col == Min(C29_Columns)
             values == {strip(table_rows[r][col]) :
                           r \in {r \in 2..Len(table_rows) : Len(table_rows[r]) >= col}}
         IN  {v \in values : /\ v # ""
                             /\ ~C29_BareNumber(v)
                             /\ ~has_any_char(v, {EURO, "$", POUND, "%"})}

\* the names extract_position_names returned from the table column
C29_TableNames ==
    {position_names[n].name :
        n \in {n \in 1..Len(position_names) :
                  position_names[n].source = "table_description_column"}}

\* C29 - table-column position names: the names emitted from the table are
\* the values of the first column whose header cell holds a description
\* keyword, taken from the data rows that are long enough, without the
\* values that are empty, a bare number or hold a currency or percentage
\* marker; none is emitted when no header cell holds a keyword.
C29_TableColumnNames ==
    pc = "names_extracted" =>
        /\ C29_TableNames = C29_Expected
        /\ \A v \in C29_TableNames : ~C29_BareNumber(v)

\* the text holds a numeric, currency or percentage token
C30_HasToken(text) ==
    \/ \E k \in 1..Len(text) : Chr(text, k) \in DIGITS
    \/ has_any_char(text, {EURO, "$", POUND, "%"})

\* the fragments of the page in top-edge order
C30_Sorted == IF pages = << >> THEN << >> ELSE sorted_asc(pages[1].elements)

\* the fragment at index n of C30_Sorted is a content-heuristic candidate
C30_Candidate(n) ==
    LET text == strip(C30_Sorted[n].text)
    IN  /\ word_count(text) >= 2
        /\ Len(text) > 5
        /\ ~isupper(text)
        /\ ~C29_BareNumber(text)
        /\ ~has_any_char(text, {EURO, "$", POUND, "%"})
        /\ \E m \in (n + 1)..Min({n + 3, Len(C30_Sorted)}) : C30_HasToken(C30_Sorted[m].text)

\* the names extract_position_names returned from the page content
C30_ContentNames ==
    {position_names[n].name :
        n \in {n \in 1..Len(position_names) : position_names[n].source = "content_analysis"}}

\* C30 - content-heuristic position names: a fragment of the page is emitted
\* exactly when its text has at least 2 words and more than 5 characters, is
\* not all-uppercase, is not a number and holds no currency or percentage
\* marker, and one of the next 3 fragments in top-edge order holds a numeric,
\* currency or percentage token; a fragment followed by no such fragment is
\* not emitted.
C30_ContentHeuristicNames ==
    (pc = "names_extracted" /\ table_rows = << >>) =>
        C30_ContentNames =
            {strip(C30_Sorted[n].text) : n \in {n \in 1..Len(C30_Sorted) : C30_Candidate(n)}}

====
